---- MODULE Spec2Model ----
(***************************************************************************)
(* Model of the request pipeline of the Zebra API client                   *)
(* (ZebraClient.request, ZebraError.fromResponse and the telemetry         *)
(* contract).                                                              *)
(*                                                                         *)
(* One request runs through the attempt loop of ZebraClient.request.  The  *)
(* suspension points of the async function are the positions of pc:        *)
(*   "idle"  before the call                                               *)
(*   "loop"  at the while condition                                        *)
(*   "sleep" awaiting the backoff timer                                    *)
(*   "fetch" awaiting the transport (fetch raced with the timeout signal)  *)
(*   "done"  returned or thrown                                            *)
(* trace and outcomes are history variables: trace records, in program     *)
(* order, every telemetry callback, backoff suspension and transport call; *)
(* outcomes records what the transport answered to each call.              *)
(*                                                                         *)
(* provider is the state of the telemetry provider the client was built    *)
(* with: the default no-op provider, the OpenTelemetry provider with its   *)
(* map of spans in progress, or a provider whose callbacks may throw.  In  *)
(* the actions of Next the callbacks return normally; the steps in which   *)
(* one throws are actions of their own.  Base URL and endpoint form a      *)
(* valid URL.                                                              *)
(* Of the wall clock only the reading taken at the call (startTime) is     *)
(* modelled; durations are not.                                            *)
(*                                                                         *)
(* call holds the arguments of the invocation.  The variables above are    *)
(* the frame of the invocation that is running; suspended is the frame of  *)
(* a second invocation on the same client, parked at an await while the    *)
(* first one runs.  bodyReads records, per answered attempt, who read the  *)
(* body of the response.  statusCall is the state of one call of           *)
(* SensorsAPI.getStatus, resourceCall the state of one call of any of the  *)
(* resource operations, and mock the state of a MockZebraClient.           *)
(***************************************************************************)
EXTENDS Integers, Sequences, FiniteSets, TLC

VARIABLES config, pc, context, attempt, lastError, httpAttempts, trace,
          outcomes, outcome, bodyReads, call, suspended, statusCall,
          resourceCall, mock, provider

vars == <<config, pc, context, attempt, lastError, httpAttempts, trace,
          outcomes, outcome, bodyReads, call, suspended, statusCall,
          resourceCall, mock, provider>>

(***************************************************************************)
(* Bounds and inputs                                                       *)
(***************************************************************************)
MaxRetriesBound == 2

DefaultInitialDelayMs == 1000
DefaultMaxDelayMs == 30000
DefaultBackoffMultiplier == 2
DefaultTimeoutMs == 30000
DefaultBaseUrl == "https://api.zebra.com/v2"

\* the key and the base URLs clients are constructed with; of these only
\* the last ends with a slash
TestApiKey == "test-key"
BaseUrls == {"", "https://api.example.com/v1", "https://api.example.com/"}
SlashedBaseUrls == {"https://api.example.com/"}

JsonText == "{\"error\":\"Not Found\"}"
SuccessJsonText == "{\"success\":true}"
PlainText == "Rate limited"
ArrayJsonText == "[\"rate\",\"limited\"]"
NumberJsonText == "503"
NullJsonText == "null"

\* A response body is a single-consumption stream: reading it yields its
\* text, or fails.
Bodies ==
    { [readable |-> TRUE, text |-> ""],
      [readable |-> TRUE, text |-> JsonText],
      [readable |-> TRUE, text |-> SuccessJsonText],
      [readable |-> TRUE, text |-> PlainText],
      [readable |-> FALSE, text |-> ""] }

EmptyBody == [readable |-> TRUE, text |-> ""]

Statuses == {200, 204, 304, 404, 429, 500, 503}

\* value of the retry-after response header: absent, numeric, not a number
RetryAfterHeaders == {"", "60", "soon"}

Responses ==
    { [type |-> "response", status |-> s, body |-> b, retryAfter |-> h] :
        s \in Statuses \ {204, 429}, b \in Bodies, h \in {""} }
    \cup
    { [type |-> "response", status |-> 429, body |-> b, retryAfter |-> h] :
        b \in Bodies, h \in RetryAfterHeaders }
    \cup
    { [type |-> "response", status |-> 204, body |-> EmptyBody, retryAfter |-> ""] }

\* what the transport throws instead of answering
TransportFailures ==
    { [type |-> "rejected", name |-> "TypeError", message |-> "fetch failed"],
      [type |-> "rejected", name |-> "TimeoutError",
       message |-> "The operation was aborted due to timeout"] }

StatusText(status) ==
    CASE status = 200 -> "OK"
      [] status = 204 -> "No Content"
      [] status = 304 -> "Not Modified"
      [] status = 404 -> "Not Found"
      [] status = 429 -> "Too Many Requests"
      [] status = 500 -> "Internal Server Error"
      [] status = 503 -> "Service Unavailable"
      [] OTHER -> ""

(***************************************************************************)
(* JavaScript values                                                       *)
(***************************************************************************)
Undefined == [t |-> "undefined"]
Null == [t |-> "null"]
Str(s) == [t |-> "string", s |-> s]
Obj(o) == [t |-> "object", o |-> o]
Arr(a) == [t |-> "array", a |-> a]
Num(n) == [t |-> "number", n |-> n]

\* JSON.parse: the decoded value, or a SyntaxError
JsonParse(text) ==
    IF text = JsonText
    THEN [ok |-> TRUE, value |-> Obj([error |-> "Not Found"])]
    ELSE IF text = SuccessJsonText
    THEN [ok |-> TRUE, value |-> Obj([success |-> TRUE])]
    ELSE IF text = ArrayJsonText
    THEN [ok |-> TRUE, value |-> Arr(<<"rate", "limited">>)]
    ELSE IF text = NumberJsonText
    THEN [ok |-> TRUE, value |-> Num(503)]
    ELSE IF text = NullJsonText
    THEN [ok |-> TRUE, value |-> Null]
    ELSE [ok |-> FALSE, value |-> Undefined]

\* parseInt(s, 10) on the header values
ParseInt(s) ==
    CASE s = "0" -> [isNaN |-> FALSE, n |-> 0]
      [] s = "60" -> [isNaN |-> FALSE, n |-> 60]
      [] OTHER -> [isNaN |-> TRUE, n |-> 0]

Min(a, b) == IF a <= b THEN a ELSE b

RECURSIVE Pow(_, _)
Pow(b, e) == IF e <= 0 THEN 1 ELSE b * Pow(b, e - 1)

\* messages of the errors thrown by response.text() and JSON.parse
BodyReadMessage == "Body is unusable"
JsonSyntaxMessage == "Unexpected token in JSON"

(***************************************************************************)
(* Error model                                                             *)
(***************************************************************************)
NoError == [cls |-> "undefined"]

ZebraError(message, statusCode, response, responseBody) ==
    [cls |-> "ZebraError", message |-> message, statusCode |-> statusCode,
     response |-> response, responseBody |-> responseBody]

PlainError(name, message) == [cls |-> "Error", name |-> name, message |-> message]


\* variant: a body that is not JSON is dropped
fromResponse_DropsText(message, response) ==
    LET responseBody ==
            IF ~response.body.readable THEN Undefined
            ELSE IF response.body.text = "" THEN Undefined
            ELSE IF JsonParse(response.body.text).ok
                 THEN JsonParse(response.body.text).value
                 ELSE Undefined
    IN ZebraError(message, response.status, response, responseBody)

\* variant: a failed read of the body propagates to the caller
fromResponse_ReadFailurePropagates(message, response) ==
    LET responseBody ==
            IF response.body.text = "" THEN Undefined
            ELSE IF JsonParse(response.body.text).ok
                 THEN JsonParse(response.body.text).value
                 ELSE Str(response.body.text)
    IN IF ~response.body.readable
       THEN PlainError("TypeError", BodyReadMessage)
       ELSE ZebraError(message, response.status, response, responseBody)

\* ZebraError.fromResponse: read the body once, JSON if it parses, else the
\* raw text, unset when empty or unreadable
fromResponse(message, response) ==
    LET responseBody ==
            IF ~response.body.readable THEN Undefined
            ELSE IF response.body.text = "" THEN Undefined
            ELSE IF JsonParse(response.body.text).ok
                 THEN JsonParse(response.body.text).value
                 ELSE Str(response.body.text)
    IN ZebraError(message, response.status, response, responseBody)


\* variant: instanceof Error
IsZebraError_AnyError(error) == error.cls \in {"ZebraError", "Error"}

IsZebraError(error) == error.cls = "ZebraError"

\* (lastError as ZebraError).statusCode || 0
StatusCodeOrZero(error) ==
    IF "statusCode" \in DOMAIN error /\ error.statusCode # 0
    THEN error.statusCode
    ELSE 0

\* (lastError as ZebraError).statusCode === 429
StatusCodeIs429(error) ==
    "statusCode" \in DOMAIN error /\ error.statusCode = 429

(***************************************************************************)
(* Telemetry contract: the callbacks, recorded in program order            *)
(***************************************************************************)
StartEvent(ctx) == [ev |-> "onRequestStart", context |-> ctx]
EndEvent(ctx, result) == [ev |-> "onRequestEnd", context |-> ctx, result |-> result]
RateLimitEvent(ctx, retryAfter) ==
    [ev |-> "onRateLimitHit", context |-> ctx, retryAfter |-> retryAfter]
RetryEvent(ctx, a, reason) ==
    [ev |-> "onRetry", context |-> ctx, attempt |-> a, reason |-> reason]
\* await new Promise((resolve) => setTimeout(resolve, delay))
SleepEvent(delay) == [ev |-> "sleep", delay |-> delay]

\* variant: one signal, made before the loop, serves every attempt
AttemptSignal_Shared(cfg, a) == [timeoutMs |-> cfg.timeoutMs, madeFor |-> 0]

\* signal: AbortSignal.timeout(this.config.timeoutMs), made anew by the
\* iteration that issues the call
AttemptSignal(cfg, a) == [timeoutMs |-> cfg.timeoutMs, madeFor |-> a]

\* a header object without properties; also what ...options.headers
\* contributes when the caller gave no headers
NoHeaders == <<>>

\* { 'Content-Type': 'application/json', 'apikey': this.config.apiKey }
DefaultHeaders(cfg) ==
    ("Content-Type" :> "application/json") @@ ("apikey" :> cfg.apiKey)

\* variant: the spread comes first, so the two defaults win over the caller
RequestHeaders_DefaultsWin(options, cfg) == DefaultHeaders(cfg) @@ options.headers

\* headers: { 'Content-Type': ..., 'apikey': ..., ...options.headers }: a
\* property the caller gave replaces the default of the same name
RequestHeaders(options, cfg) == options.headers @@ DefaultHeaders(cfg)

\* this.config.baseUrl.endsWith('/') ? this.config.baseUrl
\*                                   : `${this.config.baseUrl}/`
BaseUrlStr(cfg) ==
    IF cfg.baseUrl \in SlashedBaseUrls THEN cfg.baseUrl ELSE cfg.baseUrl \o "/"

\* new URL(endpoint, baseUrlStr).toString(), for a relative endpoint without
\* a leading slash and a base that ends in one
ResolveUrl(endpoint, base) == base \o endpoint

\* this.config.fetch(url, {...options, headers, signal})
FetchEvent(ctx, cfg, a, options) ==
    [ev |-> "fetch", method |-> ctx.method, endpoint |-> ctx.endpoint,
     signal |-> AttemptSignal(cfg, a),
     url |-> ResolveUrl(ctx.endpoint, BaseUrlStr(cfg)),
     body |-> options.body,
     headers |-> RequestHeaders(options, cfg)]

(***************************************************************************)
(* ZebraClient                                                             *)
(***************************************************************************)
\* constructor: caller options merged over the defaults
ResolvedConfig(maxRetries) ==
    [retry |-> [maxRetries |-> maxRetries,
                initialDelayMs |-> DefaultInitialDelayMs,
                maxDelayMs |-> DefaultMaxDelayMs,
                backoffMultiplier |-> DefaultBackoffMultiplier],
     timeoutMs |-> DefaultTimeoutMs,
     apiKey |-> TestApiKey,
     baseUrl |-> DefaultBaseUrl]

\* constructor with a caller-supplied key and base URL; baseUrl "" stands
\* for an omitted one: config.baseUrl || 'https://api.zebra.com/v2'
KeyedConfig(maxRetries, apiKey, baseUrl) ==
    [ResolvedConfig(maxRetries) EXCEPT
        !.apiKey = apiKey,
        !.baseUrl = IF baseUrl = "" THEN DefaultBaseUrl ELSE baseUrl]

\* the arguments of request(operationName, endpoint, options, route) and the
\* reading of Date.now() when it is called; method "" and route Undefined
\* stand for an omitted options.method and an omitted route
Call(operationName, endpoint, method, route, now) ==
    [operationName |-> operationName, endpoint |-> endpoint,
     options |-> [method |-> method, headers |-> NoHeaders, body |-> Undefined],
     route |-> route, now |-> now]

\* the same with headers and a body among the options
CallWith(operationName, endpoint, method, route, now, headers, body) ==
    [operationName |-> operationName, endpoint |-> endpoint,
     options |-> [method |-> method, headers |-> headers, body |-> body],
     route |-> route, now |-> now]

\* client.request('test', 'sensors/123', { method: 'GET' }, 'sensors/:id')
RouteCall == Call("test", "sensors/123", "GET", Str("sensors/:id"), 0)

\* options.method || 'GET'
MethodOf(options) == IF options.method = "" THEN "GET" ELSE options.method


\* variant: the route is taken from the endpoint
RequestContext_RouteFromEndpoint(method, endpoint, route, operationName, startTime) ==
    [method |-> method, endpoint |-> endpoint, route |-> Str(endpoint),
     operationName |-> operationName, startTime |-> startTime]

\* const context: RequestContext = {...}
RequestContext(method, endpoint, route, operationName, startTime) ==
    [method |-> method, endpoint |-> endpoint, route |-> route,
     operationName |-> operationName, startTime |-> startTime]

\* the descriptor slot before the call
NoContext == RequestContext("", "", Undefined, "", 0)


\* variant: the start callback is forgotten
OnRequestStart_Missing(tr, ctx) == tr

\* this.config.telemetryProvider.onRequestStart(context)
OnRequestStart(tr, ctx) == Append(tr, StartEvent(ctx))


\* variant: one iteration too many
LoopCondition_OffByOne(a, cfg) == a <= cfg.retry.maxRetries + 1

\* while (attempt <= this.config.retry.maxRetries)
LoopCondition(a, cfg) == a <= cfg.retry.maxRetries


\* variant: the original attempt is announced as a retry too
IsRetry_Always(a) == a >= 0

\* if (attempt > 0)
IsRetry(a) == a > 0


\* variant: the exponent is the attempt number itself
BackoffDelay_ExponentOff(a, cfg) ==
    Min(cfg.retry.initialDelayMs * Pow(cfg.retry.backoffMultiplier, a),
        cfg.retry.maxDelayMs)

\* Math.min(initialDelayMs * Math.pow(backoffMultiplier, attempt - 1), maxDelayMs)
BackoffDelay(a, cfg) ==
    Min(cfg.retry.initialDelayMs * Pow(cfg.retry.backoffMultiplier, a - 1),
        cfg.retry.maxDelayMs)

\* lastError?.message || 'Unknown error'
RetryReason(error) ==
    IF error.cls = "undefined" THEN "Unknown error"
    ELSE IF error.message = "" THEN "Unknown error"
    ELSE error.message

\* this.config.telemetryProvider.onRetry(context, attempt, reason), then
\* the backoff suspension begins
OnRetry(tr, ctx, a, error, cfg) ==
    Append(Append(tr, RetryEvent(ctx, a, RetryReason(error))),
           SleepEvent(BackoffDelay(a, cfg)))

\* response.ok
ResponseOk(response) == response.status >= 200 /\ response.status <= 299


\* variant: every status from 429 up counts as a rate limit
IsRateLimitStatus_AtLeast(status) == status >= 429

\* response.status === 429
IsRateLimitStatus(status) == status = 429

\* parseInt(response.headers.get('retry-after') || '0', 10)
RetryAfterOf(response) ==
    ParseInt(IF response.retryAfter = "" THEN "0" ELSE response.retryAfter)


\* variant: the attempt that succeeded is counted as a retry
SuccessResult_CountsAttempt(response, a) ==
    [statusCode |-> response.status, success |-> TRUE, error |-> NoError,
     rateLimited |-> FALSE, retryCount |-> a + 1]

\* the success result handed to onRequestEnd
SuccessResult(response, a) ==
    [statusCode |-> response.status, success |-> TRUE, error |-> NoError,
     rateLimited |-> FALSE, retryCount |-> a]


\* variant: the attempt counter is reported as it stands after the loop
FailureResult_CountsAttempts(error, a) ==
    [statusCode |-> StatusCodeOrZero(error), success |-> FALSE, error |-> error,
     rateLimited |-> StatusCodeIs429(error), retryCount |-> a]

\* the failure result handed to onRequestEnd after the loop
FailureResult(error, a) ==
    [statusCode |-> StatusCodeOrZero(error), success |-> FALSE, error |-> error,
     rateLimited |-> StatusCodeIs429(error), retryCount |-> a - 1]


\* variant: the text is returned without decoding
ReadPayload_RawText(response) ==
    IF response.status = 204 THEN [kind |-> "return", value |-> Null]
    ELSE IF ~response.body.readable
         THEN [kind |-> "throw",
               error |-> PlainError("TypeError", BodyReadMessage)]
    ELSE IF response.body.text = "" THEN [kind |-> "return", value |-> Null]
    ELSE [kind |-> "return", value |-> Str(response.body.text)]

\* after onRequestEnd on a 2xx: 204 gives null, else read the text, empty
\* gives null, else JSON.parse; a failed read or parse throws
ReadPayload(response) ==
    IF response.status = 204 THEN [kind |-> "return", value |-> Null]
    ELSE IF ~response.body.readable
         THEN [kind |-> "throw",
               error |-> PlainError("TypeError", BodyReadMessage)]
    ELSE IF response.body.text = "" THEN [kind |-> "return", value |-> Null]
    ELSE IF JsonParse(response.body.text).ok
         THEN [kind |-> "return", value |-> JsonParse(response.body.text).value]
    ELSE [kind |-> "throw",
          error |-> PlainError("SyntaxError", JsonSyntaxMessage)]

\* who reads the body of a 2xx response: nobody on 204, else response.text()
PayloadReads(response) ==
    IF response.status = 204 THEN <<>> ELSE <<"response.text">>


\* variant: the 429 branch falls through into the general branch
FailureReads_FallsThrough(response) ==
    IF IsRateLimitStatus(response.status)
    THEN <<"ZebraError.fromResponse", "ZebraError.fromResponse">>
    ELSE <<"ZebraError.fromResponse">>

\* who reads the body of a non-2xx response: the one fromResponse of the
\* branch taken (429, or else)
FailureReads(response) == <<"ZebraError.fromResponse">>

\* the typed failure built from a non-2xx response
ErrorOfResponse(response) ==
    IF IsRateLimitStatus(response.status)
    THEN fromResponse("Rate limit exceeded", response)
    ELSE fromResponse("Zebra API error: " \o StatusText(response.status), response)


\* variant: client errors are retried
IsTerminalStatus_Below400(status) == status # 429 /\ status < 400

\* variant: server errors are not retried
IsTerminalStatus_Not429(status) == status # 429

\* Only retry on 429 or 5xx
IsTerminalStatus(status) == status # 429 /\ status < 500


\* variant: the first failure is kept
NextLastError_KeepsFirst(previous, error) ==
    IF previous.cls = "undefined" THEN error ELSE previous

\* lastError = value of the assignment of one iteration, given the previous one
NextLastError(previous, error) == error


\* variant: the caught error is wrapped in a typed failure
CaughtError_Typed(error) == ZebraError(error.message, 0, Undefined, Undefined)

\* error instanceof Error ? error : new Error(String(error))
CaughtError(error) == error

\* variant: a new error is made up after the loop
ThrownAfterLoop_Synthesized(error) == PlainError("Error", "Retries exhausted")

\* throw lastError
ThrownAfterLoop(error) == error

\* SensorsAPI.getStatus not called
NoStatusCall ==
    [pc |-> "idle", serialNumber |-> "", requests |-> <<>>, warnings |-> <<>>,
     outcome |-> [kind |-> "pending"]]

\* no resource operation called
NoResourceCall ==
    [pc |-> "idle", op |-> "", id |-> "", requests |-> <<>>,
     response |-> [kind |-> "pending"], outcome |-> [kind |-> "pending"]]

\* the methods of MockZebraClient
MockMethods == {"readings.getLog", "sensors.getStatus", "sensors.list", "alarms.list"}

\* new MockZebraClient(): an empty log and no canned response.  invocations
\* counts the calls of mock methods made so far, and returned is what the
\* last of them was called with, found configured and gave its caller.
NewMock ==
    [calls |-> <<>>,
     mockResponses |-> [m \in MockMethods |-> Undefined],
     invocations |-> 0,
     returned |-> [kind |-> "pending"]]

\* the locals and the history of an invocation that has not started
IdleFrame(c) ==
    [pc |-> "idle", call |-> c, context |-> NoContext, attempt |-> 0,
     lastError |-> NoError, httpAttempts |-> 0, trace |-> <<>>,
     outcomes |-> <<>>, outcome |-> [kind |-> "pending"], bodyReads |-> <<>>]


\* variant: the counter is not advanced
NextAttempt_Stuck(a) == a

\* attempt++
NextAttempt(a) == a + 1

\* No run of the loop issues more than maxRetries + 1 transport calls; the
\* counter of calls is capped two above that, so that a loop that fails to
\* advance stops instead of growing the history without end.
AttemptCap(cfg) == cfg.retry.maxRetries + 3

(***************************************************************************)
(* Telemetry providers.  Of the OpenTelemetry provider the spans are       *)
(* modelled: the map of spans in progress and, in started, every span the  *)
(* tracer was asked for, with the events added to it, its status and the   *)
(* number of times it was ended.  The metric instruments are left out.     *)
(***************************************************************************)
\* new NoopTelemetryProvider()
NoopProvider == [kind |-> "noop"]

\* a provider whose callbacks may throw
ThrowingProvider == [kind |-> "throwing"]

\* new OTelTelemetryProvider(): private spans = new Map<string, Span>()
NewOTelProvider == [kind |-> "otel", spans |-> {}, started |-> <<>>]

\* const key = `${context.operationName}-${context.startTime}`
SpanKey(ctx) == [operationName |-> ctx.operationName, startTime |-> ctx.startTime]

\* this.spans.get(key): the index of the span in started, 0 when there is none
SpansGet(p, key) ==
    IF \E e \in p.spans : e.key = key
    THEN (CHOOSE e \in p.spans : e.key = key).span
    ELSE 0

\* this.spans.set(key, span): an entry under the same key is replaced
SpansSet(spans, key, span) ==
    { e \in spans : e.key # key } \cup { [key |-> key, span |-> span] }

\* this.spans.delete(key)
SpansDelete(spans, key) == { e \in spans : e.key # key }

\* this.tracer.startSpan(context.operationName, {attributes})
StartSpan(ctx) ==
    [name |-> ctx.operationName, url |-> ctx.endpoint, events |-> <<>>,
     status |-> "UNSET", statusCode |-> 0, ended |-> 0]

\* OTelTelemetryProvider.onRequestStart
OTelRequestStart(p, ctx) ==
    [p EXCEPT !.started = Append(@, StartSpan(ctx)),
              !.spans = SpansSet(@, SpanKey(ctx), Len(p.started) + 1)]

\* OTelTelemetryProvider.onRequestEnd
OTelRequestEnd(p, ctx, result) ==
    LET span == SpansGet(p, SpanKey(ctx))
    IN IF span = 0 THEN p
       ELSE [p EXCEPT
               !.started[span] =
                   [@ EXCEPT !.statusCode = result.statusCode,
                             !.status = IF result.success THEN "OK" ELSE "ERROR",
                             !.ended = @ + 1],
               !.spans = SpansDelete(@, SpanKey(ctx))]

\* OTelTelemetryProvider.onRateLimitHit
OTelRateLimitHit(p, ctx, retryAfter) ==
    LET span == SpansGet(p, SpanKey(ctx))
    IN IF span = 0 THEN p
       ELSE [p EXCEPT !.started[span].events =
                          Append(@, [name |-> "rate_limit_hit",
                                     retry_after |-> retryAfter])]

\* OTelTelemetryProvider.onRetry
OTelRetry(p, ctx, a, reason) ==
    LET span == SpansGet(p, SpanKey(ctx))
    IN IF span = 0 THEN p
       ELSE [p EXCEPT !.started[span].events =
                          Append(@, [name |-> "retry", attempt |-> a,
                                     reason |-> reason])]

\* the provider after one recorded step of the pipeline: a telemetry
\* callback changes the OpenTelemetry provider, and nothing else does
Told(p, e) ==
    IF p.kind # "otel" THEN p
    ELSE CASE e.ev = "onRequestStart" -> OTelRequestStart(p, e.context)
           [] e.ev = "onRequestEnd" -> OTelRequestEnd(p, e.context, e.result)
           [] e.ev = "onRateLimitHit" -> OTelRateLimitHit(p, e.context, e.retryAfter)
           [] e.ev = "onRetry" -> OTelRetry(p, e.context, e.attempt, e.reason)
           [] OTHER -> p

RECURSIVE Notified(_, _)
Notified(p, events) ==
    IF events = <<>> THEN p
    ELSE Notified(Told(p, Head(events)), Tail(events))

\* the provider after the callbacks a step of the pipeline made: the ones
\* the step added to the history
Heard(p, before, after) ==
    Notified(p, SubSeq(after, Len(before) + 1, Len(after)))

TypeOK ==
    /\ pc \in {"idle", "loop", "sleep", "fetch", "done"}
    /\ attempt \in 0..(MaxRetriesBound + 2)
    /\ httpAttempts \in 0..(MaxRetriesBound + 2)
    /\ config.retry.maxRetries \in 0..(MaxRetriesBound + 1)

Init ==
    /\ \E n \in 0..MaxRetriesBound : config = ResolvedConfig(n)
    /\ pc = "idle"
    /\ context = NoContext
    /\ attempt = 0
    /\ lastError = NoError
    /\ httpAttempts = 0
    /\ trace = <<>>
    /\ outcomes = <<>>
    /\ outcome = [kind |-> "pending"]
    /\ bodyReads = <<>>
    /\ call = RouteCall
    /\ suspended = IdleFrame(RouteCall)
    /\ statusCall = NoStatusCall
    /\ resourceCall = NoResourceCall
    /\ mock = NewMock
    /\ provider = NoopProvider

\* request(operationName, endpoint, options, route): build the descriptor,
\* announce the start, enter the loop
Request ==
    /\ pc = "idle"
    /\ LET ctx == RequestContext(MethodOf(call.options), call.endpoint, call.route,
                                 call.operationName, call.now)
       IN /\ context' = ctx
          /\ trace' = OnRequestStart(trace, ctx)
    /\ attempt' = 0
    /\ lastError' = NoError
    /\ pc' = "loop"
    /\ UNCHANGED <<config, httpAttempts, outcomes, outcome, bodyReads>>
    /\ UNCHANGED <<call, suspended, statusCall, resourceCall, mock>>
    /\ provider' = Heard(provider, trace, trace')

\* first iteration: no backoff, the transport is called at once
FirstAttempt ==
    /\ pc = "loop"
    /\ LoopCondition(attempt, config)
    /\ ~IsRetry(attempt)
    /\ httpAttempts < AttemptCap(config)
    /\ trace' = Append(trace, FetchEvent(context, config, attempt, call.options))
    /\ httpAttempts' = httpAttempts + 1
    /\ pc' = "fetch"
    /\ UNCHANGED <<config, context, attempt, lastError, outcomes, outcome, bodyReads>>
    /\ UNCHANGED <<call, suspended, statusCall, resourceCall, mock>>
    /\ provider' = Heard(provider, trace, trace')

\* a retry iteration: onRetry, then suspend for the backoff delay
RetryBackoff ==
    /\ pc = "loop"
    /\ LoopCondition(attempt, config)
    /\ IsRetry(attempt)
    /\ httpAttempts < AttemptCap(config)
    /\ trace' = OnRetry(trace, context, attempt, lastError, config)
    /\ pc' = "sleep"
    /\ UNCHANGED <<config, context, attempt, lastError, httpAttempts, outcomes, outcome,
                   bodyReads>>
    /\ UNCHANGED <<call, suspended, statusCall, resourceCall, mock>>
    /\ provider' = Heard(provider, trace, trace')

\* the backoff timer fires: the transport is called
Wake ==
    /\ pc = "sleep"
    /\ trace' = Append(trace, FetchEvent(context, config, attempt, call.options))
    /\ httpAttempts' = httpAttempts + 1
    /\ pc' = "fetch"
    /\ UNCHANGED <<config, context, attempt, lastError, outcomes, outcome, bodyReads>>
    /\ UNCHANGED <<call, suspended, statusCall, resourceCall, mock>>
    /\ provider' = Heard(provider, trace, trace')

\* catch (error): a ZebraError is rethrown, anything else becomes lastError
\* and the loop goes on; last is lastError as the try block left it
Catch(error, last) ==
    IF IsZebraError(error)
    THEN /\ pc' = "done"
         /\ outcome' = [kind |-> "throw", error |-> error]
         /\ lastError' = last
         /\ UNCHANGED attempt
    ELSE /\ lastError' = NextLastError(last, CaughtError(error))
         /\ attempt' = NextAttempt(attempt)
         /\ pc' = "loop"
         /\ UNCHANGED outcome

\* the transport answers with a 2xx status
FetchResolvesOk ==
    /\ pc = "fetch"
    /\ \E response \in Responses :
        /\ ResponseOk(response)
        /\ outcomes' = Append(outcomes, response)
        /\ trace' = Append(trace, EndEvent(context, SuccessResult(response, attempt)))
        /\ bodyReads' = Append(bodyReads, PayloadReads(response))
        /\ LET read == ReadPayload(response)
           IN IF read.kind = "return"
              THEN /\ pc' = "done"
                   /\ outcome' = [kind |-> "return", value |-> read.value]
                   /\ UNCHANGED <<attempt, lastError>>
              ELSE Catch(read.error, lastError)
    /\ UNCHANGED <<config, context, httpAttempts>>
    /\ UNCHANGED <<call, suspended, statusCall, resourceCall, mock>>
    /\ provider' = Heard(provider, trace, trace')

\* the else branch of if (response.ok), for one answer of the transport
FailureResponse(response) ==
    /\ pc = "fetch"
    /\ ~ResponseOk(response)
    /\ outcomes' = Append(outcomes, response)
    /\ trace' = IF IsRateLimitStatus(response.status)
                THEN Append(trace, RateLimitEvent(context, RetryAfterOf(response)))
                ELSE trace
    /\ bodyReads' = Append(bodyReads, FailureReads(response))
    /\ LET error == ErrorOfResponse(response)
       IN IF IsTerminalStatus(response.status)
          THEN Catch(error, NextLastError(lastError, error))
          ELSE /\ lastError' = NextLastError(lastError, error)
               /\ attempt' = NextAttempt(attempt)
               /\ pc' = "loop"
               /\ UNCHANGED outcome
    /\ UNCHANGED <<config, context, httpAttempts>>
    /\ UNCHANGED <<call, suspended, statusCall, resourceCall, mock>>
    /\ provider' = Heard(provider, trace, trace')

\* the transport answers with a non-2xx status
FetchResolvesError == \E response \in Responses : FailureResponse(response)

\* the transport throws: network failure, or the timeout signal aborted it
FetchRejects ==
    /\ pc = "fetch"
    /\ \E failure \in TransportFailures :
        /\ outcomes' = Append(outcomes, failure)
        /\ bodyReads' = Append(bodyReads, <<>>)
        /\ Catch(PlainError(failure.name, failure.message), lastError)
    /\ UNCHANGED <<config, context, httpAttempts, trace>>
    /\ UNCHANGED <<call, suspended, statusCall, resourceCall, mock>>
    /\ provider' = Heard(provider, trace, trace')

\* the loop is over: report the failure and throw the last error
Exhausted ==
    /\ pc = "loop"
    /\ ~LoopCondition(attempt, config)
    /\ trace' = Append(trace, EndEvent(context, FailureResult(lastError, attempt)))
    /\ outcome' = [kind |-> "throw", error |-> ThrownAfterLoop(lastError)]
    /\ pc' = "done"
    /\ UNCHANGED <<config, context, attempt, lastError, httpAttempts, outcomes, bodyReads>>
    /\ UNCHANGED <<call, suspended, statusCall, resourceCall, mock>>
    /\ provider' = Heard(provider, trace, trace')

Next ==
    \/ Request
    \/ FirstAttempt
    \/ RetryBackoff
    \/ Wake
    \/ FetchResolvesOk
    \/ FetchResolvesError
    \/ FetchRejects
    \/ Exhausted

Spec == Init /\ [][Next]_vars

(***************************************************************************)
(* The same pipeline under caller-supplied retry policies.  The constructor*)
(* keeps every supplied number (?? replaces only null and undefined, so 0  *)
(* stays 0).  The transport answers are a sample with one answer of each   *)
(* class.                                                                  *)
(***************************************************************************)
InitialDelays == {0, 1000}
MaxDelays == {1500, 30000}
BackoffMultipliers == {1, 2}

\* constructor with a caller-supplied retry policy
RetryPolicyConfig(maxRetries, initialDelayMs, maxDelayMs, backoffMultiplier) ==
    [retry |-> [maxRetries |-> maxRetries,
                initialDelayMs |-> initialDelayMs,
                maxDelayMs |-> maxDelayMs,
                backoffMultiplier |-> backoffMultiplier],
     timeoutMs |-> DefaultTimeoutMs,
     apiKey |-> TestApiKey,
     baseUrl |-> DefaultBaseUrl]

BackoffOutcomes ==
    { [type |-> "response", status |-> 200,
       body |-> [readable |-> TRUE, text |-> SuccessJsonText], retryAfter |-> ""],
      [type |-> "response", status |-> 200,
       body |-> [readable |-> TRUE, text |-> PlainText], retryAfter |-> ""],
      [type |-> "response", status |-> 404, body |-> EmptyBody, retryAfter |-> ""],
      [type |-> "response", status |-> 429, body |-> EmptyBody, retryAfter |-> "60"],
      [type |-> "response", status |-> 500, body |-> EmptyBody, retryAfter |-> ""],
      [type |-> "rejected", name |-> "TimeoutError",
       message |-> "The operation was aborted due to timeout"] }

\* the answer just received is one of the sample
SampledAnswer == outcomes'[Len(outcomes')] \in BackoffOutcomes

InitBackoff ==
    /\ \E i \in InitialDelays, m \in MaxDelays, b \in BackoffMultipliers :
          config = RetryPolicyConfig(MaxRetriesBound, i, m, b)
    /\ pc = "idle"
    /\ context = NoContext
    /\ attempt = 0
    /\ lastError = NoError
    /\ httpAttempts = 0
    /\ trace = <<>>
    /\ outcomes = <<>>
    /\ outcome = [kind |-> "pending"]
    /\ bodyReads = <<>>
    /\ call = RouteCall
    /\ suspended = IdleFrame(RouteCall)
    /\ statusCall = NoStatusCall
    /\ resourceCall = NoResourceCall
    /\ mock = NewMock
    /\ provider = NoopProvider

NextBackoff ==
    \/ Request
    \/ FirstAttempt
    \/ RetryBackoff
    \/ Wake
    \/ FetchResolvesOk /\ SampledAnswer
    \/ FetchResolvesError /\ SampledAnswer
    \/ FetchRejects /\ SampledAnswer
    \/ Exhausted

SpecBackoff == InitBackoff /\ [][NextBackoff]_vars

(***************************************************************************)
(* Progress.  The code between two awaits runs to the next await; a backoff*)
(* timer that was set fires; a transport call that was issued is answered, *)
(* fails, or is aborted by its timeout signal.                             *)
(***************************************************************************)
Fairness ==
    /\ WF_vars(FirstAttempt \/ RetryBackoff \/ Exhausted)
    /\ WF_vars(Wake)
    /\ WF_vars((FetchResolvesOk \/ FetchResolvesError \/ FetchRejects) /\ SampledAnswer)

SpecLive == Init /\ [][NextBackoff]_vars /\ Fairness

(***************************************************************************)
(* The same pipeline under different calls: method given or omitted, route *)
(* template given or omitted, two endpoints, two clock readings.           *)
(***************************************************************************)
Methods == {"", "POST"}
Endpoints == {"sensors/123", "tasks"}
Routes == {Undefined, Str("sensors/:id")}
ClockReadings == {0, 7}

Calls ==
    { Call("test", e, m, r, t) :
        e \in Endpoints, m \in Methods, r \in Routes, t \in ClockReadings }

InitDescriptor ==
    /\ config = ResolvedConfig(MaxRetriesBound)
    /\ pc = "idle"
    /\ context = NoContext
    /\ attempt = 0
    /\ lastError = NoError
    /\ httpAttempts = 0
    /\ trace = <<>>
    /\ outcomes = <<>>
    /\ outcome = [kind |-> "pending"]
    /\ bodyReads = <<>>
    /\ call \in Calls
    /\ suspended = IdleFrame(RouteCall)
    /\ statusCall = NoStatusCall
    /\ resourceCall = NoResourceCall
    /\ mock = NewMock
    /\ provider = NoopProvider

SpecDescriptor == InitDescriptor /\ [][NextBackoff]_vars

(***************************************************************************)
(* Two invocations of request on one client.  An async function runs       *)
(* without interruption between two awaits; while it is parked at an       *)
(* await, before its call or after its end, the event loop may run the     *)
(* other invocation.  The resolved configuration is the one field both     *)
(* invocations reach through this.                                         *)
(***************************************************************************)
ConcurrentRetries == 1

\* the frame of the running invocation: its arguments, its locals, its
\* position and its history
Frame ==
    [pc |-> pc, call |-> call, context |-> context, attempt |-> attempt,
     lastError |-> lastError, httpAttempts |-> httpAttempts, trace |-> trace,
     outcomes |-> outcomes, outcome |-> outcome, bodyReads |-> bodyReads]


\* variant: attempt and lastError are fields of the client, not locals
Resumed_SharedLocals(saved, live) ==
    [saved EXCEPT !.attempt = live.attempt, !.lastError = live.lastError]

\* context, attempt and lastError are declared inside request: an invocation
\* resumes with the locals it was parked with, whatever ran meanwhile
Resumed(saved, live) == saved

\* the running invocation is parked and the other one runs
Switch ==
    /\ pc # "loop"
    /\ LET next == Resumed(suspended, Frame)
       IN /\ pc' = next.pc
          /\ call' = next.call
          /\ context' = next.context
          /\ attempt' = next.attempt
          /\ lastError' = next.lastError
          /\ httpAttempts' = next.httpAttempts
          /\ trace' = next.trace
          /\ outcomes' = next.outcomes
          /\ outcome' = next.outcome
          /\ bodyReads' = next.bodyReads
    /\ suspended' = Frame
    /\ UNCHANGED <<config, statusCall, resourceCall, mock, provider>>

\* a second call with other arguments, and the same call made again later
OtherCall == Call("tasks.create", "tasks", "POST", Undefined, 7)
RepeatedCall == Call("test", "sensors/123", "GET", Str("sensors/:id"), 7)

InitTwoCalls ==
    /\ config = ResolvedConfig(ConcurrentRetries)
    /\ pc = "idle"
    /\ context = NoContext
    /\ attempt = 0
    /\ lastError = NoError
    /\ httpAttempts = 0
    /\ trace = <<>>
    /\ outcomes = <<>>
    /\ outcome = [kind |-> "pending"]
    /\ bodyReads = <<>>
    /\ call = RouteCall
    /\ \E c \in {OtherCall, RepeatedCall} : suspended = IdleFrame(c)
    /\ statusCall = NoStatusCall
    /\ resourceCall = NoResourceCall
    /\ mock = NewMock
    /\ provider = NoopProvider

NextConcurrent ==
    \/ NextBackoff
    \/ Switch

SpecConcurrent == InitTwoCalls /\ [][NextConcurrent]_vars

\* the second call is made when the first has finished
NextCall ==
    /\ pc = "done"
    /\ suspended.pc = "idle"
    /\ Switch

NextSequential ==
    \/ NextBackoff
    \/ NextCall

SpecSequential == InitTwoCalls /\ [][NextSequential]_vars

(***************************************************************************)
(* The same pipeline with a telemetry provider whose callbacks may throw.  *)
(* onRequestStart and onRetry are called outside the try block, and so is  *)
(* the onRequestEnd after the loop: what they throw leaves request.        *)
(* onRequestEnd on a 2xx and onRateLimitHit are called inside it: what     *)
(* they throw is caught like a failure of the attempt.                     *)
(***************************************************************************)
\* what a callback of the provider throws
ProviderError == PlainError("Error", "telemetry failed")

\* onRequestStart throws: request rejects before the loop
StartThrows ==
    /\ pc = "idle"
    /\ provider.kind = "throwing"
    /\ LET ctx == RequestContext(MethodOf(call.options), call.endpoint, call.route,
                                 call.operationName, call.now)
       IN /\ context' = ctx
          /\ trace' = OnRequestStart(trace, ctx)
    /\ pc' = "done"
    /\ outcome' = [kind |-> "throw", error |-> ProviderError]
    /\ UNCHANGED <<config, attempt, lastError, httpAttempts, outcomes, bodyReads>>
    /\ UNCHANGED <<call, suspended, statusCall, resourceCall, mock, provider>>

\* onRetry throws: request rejects before the backoff
RetryThrows ==
    /\ pc = "loop"
    /\ provider.kind = "throwing"
    /\ LoopCondition(attempt, config)
    /\ IsRetry(attempt)
    /\ trace' = OnRetry(trace, context, attempt, lastError, config)
    /\ pc' = "done"
    /\ outcome' = [kind |-> "throw", error |-> ProviderError]
    /\ UNCHANGED <<config, context, attempt, lastError, httpAttempts, outcomes,
                   bodyReads>>
    /\ UNCHANGED <<call, suspended, statusCall, resourceCall, mock, provider>>

\* the transport answers with a 2xx status and onRequestEnd throws: the
\* catch takes it
EndThrows ==
    /\ pc = "fetch"
    /\ provider.kind = "throwing"
    /\ \E response \in Responses :
        /\ ResponseOk(response)
        /\ outcomes' = Append(outcomes, response)
        /\ trace' = Append(trace, EndEvent(context, SuccessResult(response, attempt)))
        /\ bodyReads' = Append(bodyReads, <<>>)
        /\ Catch(ProviderError, lastError)
    /\ UNCHANGED <<config, context, httpAttempts>>
    /\ UNCHANGED <<call, suspended, statusCall, resourceCall, mock, provider>>

\* the transport answers 429 and onRateLimitHit throws: the catch takes it
RateLimitThrows ==
    /\ pc = "fetch"
    /\ provider.kind = "throwing"
    /\ \E response \in Responses :
        /\ ~ResponseOk(response)
        /\ IsRateLimitStatus(response.status)
        /\ outcomes' = Append(outcomes, response)
        /\ trace' = Append(trace, RateLimitEvent(context, RetryAfterOf(response)))
        /\ bodyReads' = Append(bodyReads, <<>>)
        /\ Catch(ProviderError, lastError)
    /\ UNCHANGED <<config, context, httpAttempts>>
    /\ UNCHANGED <<call, suspended, statusCall, resourceCall, mock, provider>>

\* the loop is over and onRequestEnd throws: its error is thrown in place of
\* lastError
FinalEndThrows ==
    /\ pc = "loop"
    /\ provider.kind = "throwing"
    /\ ~LoopCondition(attempt, config)
    /\ trace' = Append(trace, EndEvent(context, FailureResult(lastError, attempt)))
    /\ outcome' = [kind |-> "throw", error |-> ProviderError]
    /\ pc' = "done"
    /\ UNCHANGED <<config, context, attempt, lastError, httpAttempts, outcomes, bodyReads>>
    /\ UNCHANGED <<call, suspended, statusCall, resourceCall, mock, provider>>

InitThrowing ==
    /\ \E n \in 0..MaxRetriesBound : config = ResolvedConfig(n)
    /\ pc = "idle"
    /\ context = NoContext
    /\ attempt = 0
    /\ lastError = NoError
    /\ httpAttempts = 0
    /\ trace = <<>>
    /\ outcomes = <<>>
    /\ outcome = [kind |-> "pending"]
    /\ bodyReads = <<>>
    /\ call = RouteCall
    /\ suspended = IdleFrame(RouteCall)
    /\ statusCall = NoStatusCall
    /\ resourceCall = NoResourceCall
    /\ mock = NewMock
    /\ provider = ThrowingProvider

NextThrowing ==
    \/ NextBackoff
    \/ StartThrows
    \/ RetryThrows
    \/ EndThrows /\ SampledAnswer
    \/ RateLimitThrows /\ SampledAnswer
    \/ FinalEndThrows

SpecThrowing == InitThrowing /\ [][NextThrowing]_vars

(***************************************************************************)
(* The same pipeline with the OpenTelemetry provider: one request, and two *)
(* requests in flight through the one provider of the client.  The second  *)
(* request is for another sensor; it is made in the same millisecond as    *)
(* the first one, or later.                                                *)
(***************************************************************************)
InitSpans ==
    /\ \E n \in 0..MaxRetriesBound : config = ResolvedConfig(n)
    /\ pc = "idle"
    /\ context = NoContext
    /\ attempt = 0
    /\ lastError = NoError
    /\ httpAttempts = 0
    /\ trace = <<>>
    /\ outcomes = <<>>
    /\ outcome = [kind |-> "pending"]
    /\ bodyReads = <<>>
    /\ call = RouteCall
    /\ suspended = IdleFrame(RouteCall)
    /\ statusCall = NoStatusCall
    /\ resourceCall = NoResourceCall
    /\ mock = NewMock
    /\ provider = NewOTelProvider

SpecSpans == InitSpans /\ [][NextBackoff]_vars

\* the same operation on another sensor, in the same millisecond and later
SameTimeCall == Call("test", "sensors/456", "GET", Str("sensors/:id"), 0)
LaterCall == Call("test", "sensors/456", "GET", Str("sensors/:id"), 7)

InitOTel ==
    /\ config = ResolvedConfig(ConcurrentRetries)
    /\ pc = "idle"
    /\ context = NoContext
    /\ attempt = 0
    /\ lastError = NoError
    /\ httpAttempts = 0
    /\ trace = <<>>
    /\ outcomes = <<>>
    /\ outcome = [kind |-> "pending"]
    /\ bodyReads = <<>>
    /\ call = RouteCall
    /\ \E c \in {SameTimeCall, LaterCall} : suspended = IdleFrame(c)
    /\ statusCall = NoStatusCall
    /\ resourceCall = NoResourceCall
    /\ mock = NewMock
    /\ provider = NewOTelProvider

SpecOTel == InitOTel /\ [][NextConcurrent]_vars

(***************************************************************************)
(* SensorsAPI.getStatus.  The pipeline is taken at its boundary here: the  *)
(* awaited client.request either returns a decoded payload or throws.      *)
(***************************************************************************)
MaxSensors == 3


SerialNumbers == {"SN12345", "UNKNOWN", "SN 1/2"}

\* encodeURIComponent on the serial numbers
EncodeURIComponent(s) ==
    CASE s = "SN 1/2" -> "SN%201%2F2"
      [] OTHER -> s

SensorStatuses ==
    { [serial_number |-> "SN12345", battery_level |-> 85],
      [serial_number |-> "SN12345-DUPLICATE", battery_level |-> 70],
      [serial_number |-> "TEST", battery_level |-> 100] }

SensorLists == UNION { [1..n -> SensorStatuses] : n \in 0..MaxSensors }

NoPage == [total_pages |-> 0, page_size |-> 10, current_page |-> 1]

\* what client.request can return to getStatus: null (204 or empty body), a
\* payload without sensors, with sensors: null, with a list of sensors
ListPayloads ==
    { Null, Obj([page_response |-> NoPage]),
      Obj([sensors |-> Null, page_response |-> NoPage]) }
    \cup { Obj([sensors |-> Arr(l), page_response |-> NoPage]) : l \in SensorLists }

\* what client.request can throw into getStatus
PipelineErrors ==
    { fromResponse("Zebra API error: Not Found",
                   [type |-> "response", status |-> 404, body |-> EmptyBody,
                    retryAfter |-> ""]),
      PlainError("TimeoutError", "The operation was aborted due to timeout") }

\* the query getStatus hands to client.request
StatusQuery(serialNumber) ==
    [operationName |-> "sensors.getStatus",
     endpoint |-> "devices/environmental-sensors?text_filter="
                      \o EncodeURIComponent(serialNumber),
     options |-> [method |-> "GET"],
     route |-> Str("devices/environmental-sensors")]

\* !response.sensors || response.sensors.length === 0
NoSensors(response) ==
    \/ "sensors" \notin DOMAIN response.o
    \/ response.o.sensors = Null
    \/ Len(response.o.sensors.a) = 0

NotFoundMessage(serialNumber) == "No sensor found with serial number: " \o serialNumber

MultipleWarning(serialNumber) ==
    "Multiple sensors found for serial number " \o serialNumber
        \o ", returning the first one"


\* variant: more than one match is an error
SelectStatus_FailsOnMany(response, serialNumber) ==
    IF response = Null
    THEN [outcome |-> [kind |-> "throw",
                       error |-> PlainError("TypeError",
                                            "Cannot read properties of null")],
          warnings |-> <<>>]
    ELSE IF NoSensors(response) \/ Len(response.o.sensors.a) > 1
    THEN [outcome |-> [kind |-> "throw",
                       error |-> PlainError("Error", NotFoundMessage(serialNumber))],
          warnings |-> <<>>]
    ELSE [outcome |-> [kind |-> "return", value |-> response.o.sensors.a[1]],
          warnings |-> <<>>]

\* the rest of getStatus once client.request has returned response: the
\* outcome and the warnings written to the console
SelectStatus(response, serialNumber) ==
    IF response = Null
    THEN [outcome |-> [kind |-> "throw",
                       error |-> PlainError("TypeError",
                                            "Cannot read properties of null")],
          warnings |-> <<>>]
    ELSE IF NoSensors(response)
    THEN [outcome |-> [kind |-> "throw",
                       error |-> PlainError("Error", NotFoundMessage(serialNumber))],
          warnings |-> <<>>]
    ELSE [outcome |-> [kind |-> "return", value |-> response.o.sensors.a[1]],
          warnings |-> IF Len(response.o.sensors.a) > 1
                       THEN <<MultipleWarning(serialNumber)>>
                       ELSE <<>>]

requestVars ==
    <<config, pc, context, attempt, lastError, httpAttempts, trace, outcomes,
      outcome, bodyReads, call, suspended, provider>>

\* getStatus(serialNumber): build the endpoint, call client.request, await
GetStatus ==
    /\ statusCall.pc = "idle"
    /\ \E serialNumber \in SerialNumbers :
          statusCall' = [pc |-> "await", serialNumber |-> serialNumber,
                         requests |-> <<StatusQuery(serialNumber)>>,
                         warnings |-> <<>>, outcome |-> [kind |-> "pending"]]
    /\ UNCHANGED <<requestVars, resourceCall, mock>>

\* client.request returns a payload
GetStatusResolves ==
    /\ statusCall.pc = "await"
    /\ \E response \in ListPayloads :
          LET selected == SelectStatus(response, statusCall.serialNumber)
          IN statusCall' = [pc |-> "done", serialNumber |-> statusCall.serialNumber,
                            requests |-> statusCall.requests,
                            response |-> [kind |-> "return", value |-> response],
                            warnings |-> statusCall.warnings \o selected.warnings,
                            outcome |-> selected.outcome]
    /\ UNCHANGED <<requestVars, resourceCall, mock>>

\* client.request throws: getStatus rejects with the same error
GetStatusRejects ==
    /\ statusCall.pc = "await"
    /\ \E error \in PipelineErrors :
          statusCall' = [pc |-> "done", serialNumber |-> statusCall.serialNumber,
                         requests |-> statusCall.requests,
                         response |-> [kind |-> "throw", error |-> error],
                         warnings |-> statusCall.warnings,
                         outcome |-> [kind |-> "throw", error |-> error]]
    /\ UNCHANGED <<requestVars, resourceCall, mock>>

NextSensors ==
    \/ GetStatus
    \/ GetStatusResolves
    \/ GetStatusRejects

SpecSensors == Init /\ [][NextSensors]_vars

(***************************************************************************)
(* The resource operations: SensorsAPI, ReadingsAPI, AlarmsAPI, TasksAPI,  *)
(* WebhooksAPI, AuthAPI.  The pipeline is taken at its boundary, as for    *)
(* getStatus.  An operation is called with an identifier (task, sensor,    *)
(* serial number or subscription, as the operation needs) and, where it    *)
(* pages, with a page number or none ("").                                 *)
(***************************************************************************)
ResourceIds == {"T1", "SN12345"}
PageOptions == {"", "2"}

\* the arguments an operation hands to client.request
ResourceRequest(operationName, endpoint, options, route) ==
    [operationName |-> operationName, endpoint |-> endpoint,
     options |-> options, route |-> Str(route)]

Prepared(request) == [kind |-> "request", request |-> request]

\* new URL(input) without a base: a relative reference is not a valid URL
NewUrl(input) == [kind |-> "throw", error |-> PlainError("TypeError", "Invalid URL")]

\* params.toString() ? `${path}?${params.toString()}` : path, with
\* page.page the one parameter set
Paged(path, page) == IF page = "" THEN path ELSE path \o "?page.page=" \o page

SensorsRequest(op, id, page) ==
    CASE op = "sensors.getStatus" -> Prepared(StatusQuery(id))
      [] op = "sensors.list" ->
            Prepared(ResourceRequest(op, Paged("environmental/sensors", page),
                                     [method |-> "GET"], "environmental/sensors"))
      [] op = "sensors.register" ->
            Prepared(ResourceRequest(op, "devices/sensor-enrollments",
                        [method |-> "POST",
                         body |-> "{\"serial_number\":\"" \o id \o "\"}"],
                        "devices/sensor-enrollments"))
      [] op = "sensors.unregister" ->
            Prepared(ResourceRequest(op, "devices/sensor-enrollments/" \o id,
                        [method |-> "DELETE"],
                        "devices/sensor-enrollments/:serialNumber"))
      [] op = "sensors.listEnrolled" ->
            Prepared(ResourceRequest(op, Paged("devices/environmental-sensors", page),
                        [method |-> "GET"], "devices/environmental-sensors"))
      [] op = "sensors.triggerRead" ->
            Prepared(ResourceRequest(op,
                        "devices/environmental-sensors/" \o id \o "/readings",
                        [method |-> "POST"],
                        "devices/environmental-sensors/:sensorId/readings"))

\* getLog with sensorTaskId 'ST1' and startTime 2024-01-01T00:00:00.000Z
ReadingsRequest(op, id, page) ==
    Prepared(ResourceRequest(op,
        "data/environmental/tasks/" \o id
            \o "/log?savannah_sensor_task_id=ST1&since=2024-01-01T00%3A00%3A00.000Z",
        [method |-> "GET"], "data/environmental/tasks/:taskId/log"))

\* list: the URL is built with new URL(`environmental/tasks/${taskId}/alarms`)
\* before client.request is reached
AlarmsRequest(op, id, page) ==
    LET url == NewUrl("environmental/tasks/" \o id \o "/alarms")
    IN IF url.kind = "throw"
       THEN url
       ELSE Prepared(ResourceRequest(op, url.href, [method |-> "GET"],
                                     "environmental/tasks/:taskId/alarms"))

TasksRequest(op, id, page) ==
    CASE op = "tasks.create" ->
            Prepared(ResourceRequest(op, "environmental/tasks",
                        [method |-> "POST",
                         body |-> "{\"name\":\"" \o id \o "\",\"interval\":{\"minutes\":5},"
                                  \o "\"loop_reads\":true,"
                                  \o "\"sensor_type\":\"SENSOR_TYPE_TEMPERATURE\","
                                  \o "\"start_immediately\":true}"],
                        "environmental/tasks"))
      [] op = "tasks.get" ->
            Prepared(ResourceRequest(op, "environmental/tasks/" \o id,
                        [method |-> "GET"], "environmental/tasks/:taskId"))
      [] op = "tasks.list" ->
            Prepared(ResourceRequest(op, Paged("environmental/tasks", page),
                        [method |-> "GET"], "environmental/tasks"))
      [] op = "tasks.stop" ->
            Prepared(ResourceRequest(op, "environmental/tasks/" \o id \o "/stop",
                        [method |-> "POST"], "environmental/tasks/:taskId/stop"))
      [] op = "tasks.delete" ->
            Prepared(ResourceRequest(op, "environmental/tasks/" \o id,
                        [method |-> "DELETE"], "environmental/tasks/:taskId"))
      [] op = "tasks.assignSensors" ->
            Prepared(ResourceRequest(op, "environmental/tasks/" \o id \o "/sensors",
                        [method |-> "POST", body |-> "{\"sensor_ids\":[\"S1\"]}"],
                        "environmental/tasks/:taskId/sensors"))

WebhooksRequest(op, id, page) ==
    CASE op = "webhooks.register" ->
            Prepared(ResourceRequest(op, "subscription",
                        [method |-> "POST",
                         body |-> "{\"webhookUrl\":\"https://example.com/hook\"}"],
                        "subscription"))
      [] op = "webhooks.list" ->
            Prepared(ResourceRequest(op, "subscription", [method |-> "GET"],
                                     "subscription"))
      [] op = "webhooks.stop" ->
            Prepared(ResourceRequest(op, "subscription/" \o id \o "/stop",
                        [method |-> "POST"], "subscription/:id/stop"))
      [] op = "webhooks.start" ->
            Prepared(ResourceRequest(op, "subscription/" \o id \o "/start",
                        [method |-> "POST"], "subscription/:id/start"))
      [] op = "webhooks.delete" ->
            Prepared(ResourceRequest(op, "subscription/" \o id,
                        [method |-> "DELETE"], "subscription/:id"))

AuthRequest(op, id, page) ==
    Prepared(ResourceRequest(op, "devices/credentials/token", [method |-> "POST"],
                             "devices/credentials/token"))

SensorsOperations ==
    {"sensors.getStatus", "sensors.list", "sensors.register", "sensors.unregister",
     "sensors.listEnrolled", "sensors.triggerRead"}
TasksOperations ==
    {"tasks.create", "tasks.get", "tasks.list", "tasks.stop", "tasks.delete",
     "tasks.assignSensors"}
WebhooksOperations ==
    {"webhooks.register", "webhooks.list", "webhooks.stop", "webhooks.start",
     "webhooks.delete"}

\* the operations reached through the fields of the client
ResourceOperations ==
    SensorsOperations \cup TasksOperations \cup WebhooksOperations
        \cup {"readings.getLog", "alarms.list", "auth.createZSFinderToken"}

\* the operations declared Promise<void>: the payload is awaited and dropped
VoidOperations ==
    {"sensors.unregister", "sensors.triggerRead", "tasks.stop", "tasks.delete",
     "webhooks.stop", "webhooks.start", "webhooks.delete"}

\* what the operation does up to its call of client.request
PrepareRequest(op, id, page) ==
    IF op \in SensorsOperations THEN SensorsRequest(op, id, page)
    ELSE IF op \in TasksOperations THEN TasksRequest(op, id, page)
    ELSE IF op \in WebhooksOperations THEN WebhooksRequest(op, id, page)
    ELSE IF op = "readings.getLog" THEN ReadingsRequest(op, id, page)
    ELSE IF op = "alarms.list" THEN AlarmsRequest(op, id, page)
    ELSE AuthRequest(op, id, page)

\* what the operation makes of the payload client.request returned
Returned(op, id, payload) ==
    IF op = "sensors.getStatus" THEN SelectStatus(payload, id).outcome
    ELSE IF op \in VoidOperations THEN [kind |-> "return", value |-> Undefined]
    ELSE [kind |-> "return", value |-> payload]

\* the operation is called: it throws, or calls client.request and awaits
ResourceCall ==
    /\ resourceCall.pc = "idle"
    /\ \E op \in ResourceOperations, id \in ResourceIds, page \in PageOptions :
          LET prepared == PrepareRequest(op, id, page)
          IN resourceCall' =
                IF prepared.kind = "throw"
                THEN [pc |-> "done", op |-> op, id |-> id, requests |-> <<>>,
                      response |-> [kind |-> "pending"],
                      outcome |-> [kind |-> "throw", error |-> prepared.error]]
                ELSE [pc |-> "await", op |-> op, id |-> id,
                      requests |-> <<prepared.request>>,
                      response |-> [kind |-> "pending"],
                      outcome |-> [kind |-> "pending"]]
    /\ UNCHANGED <<requestVars, statusCall, mock>>

\* client.request returns a payload
ResourceResolves ==
    /\ resourceCall.pc = "await"
    /\ \E payload \in ListPayloads :
          resourceCall' = [resourceCall EXCEPT
                              !.pc = "done",
                              !.response = [kind |-> "return", value |-> payload],
                              !.outcome = Returned(resourceCall.op, resourceCall.id,
                                                   payload)]
    /\ UNCHANGED <<requestVars, statusCall, mock>>

\* client.request throws: the operation rejects with what it threw
ResourceRejects ==
    /\ resourceCall.pc = "await"
    /\ \E error \in PipelineErrors :
          resourceCall' = [resourceCall EXCEPT
                              !.pc = "done",
                              !.response = [kind |-> "throw", error |-> error],
                              !.outcome = [kind |-> "throw", error |-> error]]
    /\ UNCHANGED <<requestVars, statusCall, mock>>

NextResources ==
    \/ ResourceCall
    \/ ResourceResolves
    \/ ResourceRejects

SpecResources == Init /\ [][NextResources]_vars

(***************************************************************************)
(* MockZebraClient: a log of calls and one canned response per method,     *)
(* which the test sets through the public field mockResponses.             *)
(***************************************************************************)
MaxCalls == 2

\* the argument each mock method is called with
MockArgument(method) ==
    CASE method = "readings.getLog" -> Obj([taskId |-> "T1", sensorTaskId |-> "ST1"])
      [] method = "sensors.getStatus" -> Str("SN12345")
      [] method = "sensors.list" -> Undefined
      [] method = "alarms.list" -> Obj([taskId |-> "T1"])

\* a canned value of each method
CannedValue(method) ==
    CASE method = "readings.getLog" -> Obj([results |-> Arr(<<>>)])
      [] method = "sensors.getStatus" -> Obj([serial_number |-> "SN12345"])
      [] method = "sensors.list" -> Obj([sensors |-> Arr(<<>>), page_response |-> NoPage])
      [] method = "alarms.list" -> Obj([alarms |-> Arr(<<>>)])

\* the errors a test cans
CannedErrors == { PlainError("Error", "Mock failure") }

\* mockResponses.x.y: unset, a value, or an Error
CannedResponses(method) == {Undefined, CannedValue(method)} \cup CannedErrors

\* response instanceof Error
InstanceOfError(response) == "cls" \in DOMAIN response

\* !response, for undefined and for the objects that are canned
Falsy(response) == response = Undefined


\* variant: an Error is recorded as the result
RecordOf_ErrorAsResult(method, arg, now, response) ==
    [method |-> method, args |-> <<arg>>, timestamp |-> now,
     result |-> response,
     error |-> Undefined]

\* { method, args: [arg], timestamp: Date.now(), result: ..., error: ... }
RecordOf(method, arg, now, response) ==
    [method |-> method, args |-> <<arg>>, timestamp |-> now,
     result |-> IF InstanceOfError(response) THEN Undefined ELSE response,
     error |-> IF InstanceOfError(response) THEN response ELSE Undefined]


\* variant: the record is put at the front of the log
Logged_Prepends(calls, record) == <<record>> \o calls

\* this._calls.push(record)
Logged(calls, record) == Append(calls, record)

NoResponseMessage(method) == "No mock response configured for " \o method

\* if (response instanceof Error) throw response;
\* if (!response) throw new Error('No mock response configured for ...');
\* return response;
Answered(method, response) ==
    IF InstanceOfError(response) THEN [kind |-> "throw", error |-> response]
    ELSE IF Falsy(response)
    THEN [kind |-> "throw", error |-> PlainError("Error", NoResponseMessage(method))]
    ELSE [kind |-> "return", value |-> response]

\* Date.now(), read from a clock that ticks once per call of a mock method
DateNow == mock.invocations

\* the body shared by the four mock methods: read the canned response, push
\* the record, then throw or return
MockMethod(method, arg, now) ==
    /\ mock.invocations < MaxCalls
    /\ LET response == mock.mockResponses[method]
           answer == Answered(method, response)
       IN mock' = [mock EXCEPT
                     !.calls = Logged(@, RecordOf(method, arg, now, response)),
                     !.invocations = @ + 1,
                     !.returned = [method |-> method, args |-> <<arg>>,
                                   canned |-> response] @@ answer]
    /\ UNCHANGED <<requestVars, statusCall, resourceCall>>

ReadingsGetLog ==
    MockMethod("readings.getLog", MockArgument("readings.getLog"), DateNow)

SensorsGetStatus ==
    MockMethod("sensors.getStatus", MockArgument("sensors.getStatus"), DateNow)

SensorsList ==
    MockMethod("sensors.list", MockArgument("sensors.list"), DateNow)

AlarmsList ==
    MockMethod("alarms.list", MockArgument("alarms.list"), DateNow)

\* clearCalls(): this._calls = []
ClearCalls ==
    /\ mock' = [mock EXCEPT !.calls = <<>>]
    /\ UNCHANGED <<requestVars, statusCall, resourceCall>>

\* the test assigns a canned response: client.mockResponses.x.y = response
SetMockResponse ==
    /\ \E method \in MockMethods :
          \E response \in CannedResponses(method) :
              mock' = [mock EXCEPT !.mockResponses[method] = response]
    /\ UNCHANGED <<requestVars, statusCall, resourceCall>>

NextMock ==
    \/ ReadingsGetLog
    \/ SensorsGetStatus
    \/ SensorsList
    \/ AlarmsList
    \/ ClearCalls
    \/ SetMockResponse

\* a new mock; the real client beside it is left idle
InitMock ==
    /\ Init
    /\ config = ResolvedConfig(0)

SpecMock == InitMock /\ [][NextMock]_vars

(***************************************************************************)
(* Properties                                                              *)
(***************************************************************************)
Count(ev) == Cardinality({i \in DOMAIN trace : trace[i].ev = ev})

\* position in trace of the k-th transport call
FetchPos(k) ==
    CHOOSE p \in DOMAIN trace :
        /\ trace[p].ev = "fetch"
        /\ Cardinality({j \in 1..p : trace[j].ev = "fetch"}) = k

MaxRetries == config.retry.maxRetries

Is2xx(o) == o.type = "response" /\ o.status \in 200..299
Is429(o) == o.type = "response" /\ o.status = 429
Is5xx(o) == o.type = "response" /\ o.status >= 500
IsTransport(o) == o.type = "rejected"
IsClientError(o) ==
    o.type = "response" /\ o.status \notin 200..299 /\ o.status < 500 /\ o.status # 429

\* the body a typed failure must carry for a response body
ExpectedErrorBody(body) ==
    IF ~body.readable \/ body.text = "" THEN Undefined
    ELSE IF body.text = JsonText THEN Obj([error |-> "Not Found"])
    ELSE IF body.text = SuccessJsonText THEN Obj([success |-> TRUE])
    ELSE Str(body.text)

\* the payload a 2xx response stands for
ExpectedPayload(o) ==
    IF o.status = 204 \/ (o.body.readable /\ o.body.text = "") THEN Null
    ELSE IF o.body.readable /\ o.body.text = JsonText THEN Obj([error |-> "Not Found"])
    ELSE IF o.body.readable /\ o.body.text = SuccessJsonText THEN Obj([success |-> TRUE])
    ELSE Undefined

\* the message of the failure of one attempt
FailureMessage(o) ==
    IF IsTransport(o) THEN o.message
    ELSE IF Is429(o) THEN "Rate limit exceeded"
    ELSE IF Is2xx(o)
         THEN (IF o.body.readable THEN JsonSyntaxMessage ELSE BodyReadMessage)
    ELSE "Zebra API error: " \o StatusText(o.status)

\* C1: for every maxRetries = N >= 0 and every sequence of attempt outcomes,
\* the number of HTTP attempts issued by a request never exceeds N + 1.
C1_AttemptsBounded ==
    /\ httpAttempts <= MaxRetries + 1
    /\ Count("fetch") = httpAttempts

C1_Witness ==
    /\ pc = "done"
    /\ MaxRetries >= 1
    /\ httpAttempts = MaxRetries + 1
    /\ \E i \in DOMAIN outcomes : IsTransport(outcomes[i])
    /\ \E i \in DOMAIN outcomes : Is429(outcomes[i])

\* what holds of a terminal client error received on attempt i: it is the
\* last attempt, no retry callback follows it, the request has thrown a
\* ZebraError with that status
C2_Terminal(i) ==
    /\ i = Len(outcomes)
    /\ httpAttempts = i
    /\ \A p \in DOMAIN trace : p > FetchPos(i) => trace[p].ev \notin {"onRetry", "fetch", "sleep"}
    /\ pc = "done"
    /\ outcome.kind = "throw"
    /\ outcome.error.cls = "ZebraError"
    /\ outcome.error.statusCode = outcomes[i].status

\* C2 as stated: a non-2xx status below 500 other than 429 ends the request
\* with a ZebraError of that status, without further attempt or retry
\* callback; if it is the first response the request received, exactly one
\* HTTP attempt was made in total.
C2_FirstResponseOneAttempt ==
    \A i \in DOMAIN outcomes :
        IsClientError(outcomes[i]) =>
            /\ C2_Terminal(i)
            /\ (\A j \in 1..(i - 1) : outcomes[j].type # "response") => httpAttempts = 1

\* C2 (amended): as above, but exactly one HTTP attempt is made in total if
\* the status is the answer to the first attempt.
C2_TerminalClientError ==
    \A i \in DOMAIN outcomes :
        IsClientError(outcomes[i]) =>
            /\ C2_Terminal(i)
            /\ (i = 1 => httpAttempts = 1 /\ Count("fetch") = 1)

C2_Witness ==
    /\ pc = "done"
    /\ MaxRetries = 2
    /\ Len(outcomes) = 2
    /\ Is5xx(outcomes[1])
    /\ IsClientError(outcomes[2])
    /\ outcome.kind = "throw"
    /\ outcome.error.statusCode = 404

\* C3: every request that finishes, by returning or by throwing, has invoked
\* onRequestEnd exactly once.
C3_EndExactlyOnce == pc = "done" => Count("onRequestEnd") = 1

\* C4: onRequestStart is invoked exactly once per request, before the first
\* HTTP attempt and before any other telemetry callback.
C4_StartOnceFirst ==
    /\ pc = "idle" => trace = <<>>
    /\ pc # "idle" =>
        /\ Len(trace) >= 1
        /\ trace[1].ev = "onRequestStart"
        /\ Count("onRequestStart") = 1

C4_Witness ==
    /\ pc = "done"
    /\ httpAttempts >= 2
    /\ Count("onRateLimitHit") >= 1
    /\ Count("onRetry") >= 1
    /\ Count("onRequestEnd") >= 1

C6_RetryThenSuccess ==
    \A i \in DOMAIN outcomes :
        ( /\ Is2xx(outcomes[i])
          /\ \A j \in 1..(i - 1) :
                Is429(outcomes[j]) \/ Is5xx(outcomes[j]) \/ IsTransport(outcomes[j]) )
        => /\ pc = "done"
           /\ httpAttempts = i
           /\ outcome.kind = "return"
           /\ outcome.value = ExpectedPayload(outcomes[i])

\* C7: when every attempt of a request returns a status >= 500, exactly
\* maxRetries+1 HTTP attempts are made and the request then throws a
\* ZebraError carrying the status of the last response.
C7_ServerErrorsRetried ==
    (Len(outcomes) >= 1 /\ \A i \in DOMAIN outcomes : Is5xx(outcomes[i])) =>
        /\ Len(outcomes) <= MaxRetries => (pc # "done" /\ outcome.kind = "pending")
        /\ pc = "done" =>
            /\ httpAttempts = MaxRetries + 1
            /\ Len(outcomes) = MaxRetries + 1
            /\ outcome.kind = "throw"
            /\ outcome.error.cls = "ZebraError"
            /\ outcome.error.statusCode = outcomes[Len(outcomes)].status

C7_Witness ==
    /\ pc = "done"
    /\ MaxRetries = 2
    /\ Len(outcomes) = 3
    /\ \A i \in DOMAIN outcomes : Is5xx(outcomes[i])
    /\ outcomes[1].status = 503
    /\ outcomes[3].status = 500
    /\ outcome.kind = "throw"

\* C8: when every attempt of a request fails at transport level (network
\* error or timeout), exactly maxRetries+1 HTTP attempts are made, the end
\* callback reports success = false with statusCode 0, and the request
\* throws.
C8_TransportFailuresRetried ==
    (Len(outcomes) >= 1 /\ \A i \in DOMAIN outcomes : IsTransport(outcomes[i])) =>
        /\ Len(outcomes) <= MaxRetries => (pc # "done" /\ outcome.kind = "pending")
        /\ pc = "done" =>
            /\ httpAttempts = MaxRetries + 1
            /\ Len(outcomes) = MaxRetries + 1
            /\ outcome.kind = "throw"
            /\ Count("onRequestEnd") = 1
            /\ trace[Len(trace)].ev = "onRequestEnd"
            /\ trace[Len(trace)].result.success = FALSE
            /\ trace[Len(trace)].result.statusCode = 0

C8_Witness ==
    /\ pc = "done"
    /\ MaxRetries = 2
    /\ Len(outcomes) = 3
    /\ \A i \in DOMAIN outcomes : IsTransport(outcomes[i])
    /\ outcomes[1].name = "TimeoutError"
    /\ outcomes[3].name = "TypeError"
    /\ trace[Len(trace)].ev = "onRequestEnd"

\* C9: onRateLimitHit is invoked exactly once for each attempt that receives
\* a 429 response and never for an attempt with another outcome; the number
\* of rate-limit callbacks equals the number of 429 responses received.
C9_RateLimitPer429 ==
    /\ Count("onRateLimitHit") = Cardinality({i \in DOMAIN outcomes : Is429(outcomes[i])})
    /\ \A k \in DOMAIN outcomes :
        LET p == FetchPos(k)
        IN Is429(outcomes[k]) <=> (p < Len(trace) /\ trace[p + 1].ev = "onRateLimitHit")
    /\ \A p \in DOMAIN trace :
        trace[p].ev = "onRateLimitHit" => (p > 1 /\ trace[p - 1].ev = "fetch")

C9_Witness ==
    /\ pc = "done"
    /\ Len(outcomes) = 3
    /\ Is429(outcomes[1])
    /\ Is5xx(outcomes[2])
    /\ Is429(outcomes[3])
    /\ Count("onRateLimitHit") = 2

\* C10: when the final permitted attempt of a request still returns 429, the
\* request throws a ZebraError with statusCode 429 whose responseBody is the
\* parsed body of that final response, not of an earlier one.
C10_Final429Body ==
    (pc = "done" /\ Len(outcomes) = MaxRetries + 1 /\ Is429(outcomes[Len(outcomes)])) =>
        /\ outcome.kind = "throw"
        /\ outcome.error.cls = "ZebraError"
        /\ outcome.error.statusCode = 429
        /\ outcome.error.responseBody = ExpectedErrorBody(outcomes[Len(outcomes)].body)
        /\ outcome.error.response = outcomes[Len(outcomes)]

C10_Witness ==
    /\ pc = "done"
    /\ MaxRetries >= 1
    /\ Len(outcomes) = MaxRetries + 1
    /\ Is429(outcomes[1])
    /\ outcomes[1].body.text = JsonText
    /\ Is429(outcomes[Len(outcomes)])
    /\ outcomes[Len(outcomes)].body.text = PlainText
    /\ outcome.kind = "throw"
    /\ outcome.error.responseBody = Str(PlainText)

\* C11: with maxRetries = 0 a request makes exactly one HTTP attempt and
\* invokes onRetry zero times, whatever the outcome of that attempt is.
C11_ZeroRetriesOneAttempt ==
    MaxRetries = 0 =>
        /\ httpAttempts <= 1
        /\ Count("fetch") = httpAttempts
        /\ Count("onRetry") = 0
        /\ Count("sleep") = 0
        /\ pc \in {"fetch", "done"} => httpAttempts = 1
        /\ pc = "done" => Len(outcomes) = 1

C11_Witness ==
    /\ MaxRetries = 0
    /\ pc = "done"
    /\ httpAttempts = 1
    /\ Is429(outcomes[1])
    /\ outcome.kind = "throw"

\* position in trace of the n-th onRequestEnd callback
EndPos(n) ==
    CHOOSE p \in DOMAIN trace :
        /\ trace[p].ev = "onRequestEnd"
        /\ Cardinality({j \in 1..p : trace[j].ev = "onRequestEnd"}) = n

CountBefore(ev, p) == Cardinality({j \in 1..(p - 1) : trace[j].ev = ev})

\* C13: the retryCount handed to onRequestEnd is the number of retries
\* performed: the HTTP attempts made before the one that succeeded on the
\* success path, the total number of HTTP attempts minus 1 on the failure
\* path; in both cases the number of onRetry calls made.
C13_RetryCount ==
    \A p \in DOMAIN trace :
        trace[p].ev = "onRequestEnd" =>
            /\ trace[p].result.retryCount = CountBefore("fetch", p) - 1
            /\ trace[p].result.retryCount = CountBefore("onRetry", p)
            /\ trace[p].result.success = FALSE =>
                 (p = Len(trace) /\ trace[p].result.retryCount = httpAttempts - 1)

C13_Witness ==
    /\ pc = "done"
    /\ MaxRetries = 2
    /\ httpAttempts = 3
    /\ outcome.kind = "throw"
    /\ trace[Len(trace)].ev = "onRequestEnd"
    /\ trace[Len(trace)].result.success = FALSE
    /\ trace[Len(trace)].result.retryCount = 2
    /\ Count("onRetry") = 2

\* C12: the suspension before retry attempt k (1-indexed) lasts
\* min(initialDelayMs * backoffMultiplier^(k-1), maxDelayMs): it never
\* exceeds maxDelayMs, a backoffMultiplier of 1 gives the same delay before
\* every retry, an initialDelayMs of 0 gives a delay of 0 before every retry.
C12_BackoffDelay ==
    \A p \in DOMAIN trace :
        trace[p].ev = "sleep" =>
            LET k == CountBefore("sleep", p) + 1
                grown == config.retry.initialDelayMs * config.retry.backoffMultiplier ^ (k - 1)
            IN /\ p > 1
               /\ trace[p - 1].ev = "onRetry"
               /\ trace[p - 1].attempt = k
               /\ trace[p].delay = IF grown <= config.retry.maxDelayMs
                                   THEN grown
                                   ELSE config.retry.maxDelayMs
               /\ trace[p].delay <= config.retry.maxDelayMs
               /\ config.retry.backoffMultiplier = 1 =>
                    \A q \in DOMAIN trace :
                        trace[q].ev = "sleep" => trace[q].delay = trace[p].delay
               /\ config.retry.initialDelayMs = 0 => trace[p].delay = 0

C12_Witness ==
    /\ pc = "done"
    /\ config.retry.initialDelayMs = 1000
    /\ config.retry.backoffMultiplier = 2
    /\ config.retry.maxDelayMs = 1500
    /\ Count("sleep") >= 2
    /\ \E p, q \in DOMAIN trace :
        /\ p < q
        /\ trace[p].ev = "sleep" /\ trace[p].delay = 1000
        /\ trace[q].ev = "sleep" /\ trace[q].delay = 1500

\* the request ran out of attempts: its last event is the failure end result
ExhaustedDone ==
    /\ pc = "done"
    /\ Len(trace) >= 1
    /\ trace[Len(trace)].ev = "onRequestEnd"
    /\ trace[Len(trace)].result.success = FALSE

LastOutcome == outcomes[Len(outcomes)]

\* no attempt was answered with a 2xx status: every attempt failed outright
NoSuccessStatus == \A i \in DOMAIN outcomes : ~Is2xx(outcomes[i])

\* C14: in the end result of a request that fails after exhausting its
\* attempts, rateLimited is true if the last failure or any prior failure
\* of the request was a 429.  (Stated for requests whose attempts all failed
\* outright, so that a violation does not rest on the handling of 2xx
\* bodies.)
C14_RateLimitedAnyFailure ==
    (ExhaustedDone /\ NoSuccessStatus /\ \E i \in DOMAIN outcomes : Is429(outcomes[i])) =>
        trace[Len(trace)].result.rateLimited = TRUE

\* C15: in the end result of a request that succeeds, rateLimited is true
\* when at least one earlier attempt of the request received a 429, and
\* false otherwise.
C15_RateLimitedOnSuccess ==
    (pc = "done" /\ outcome.kind = "return") =>
        /\ trace[Len(trace)].ev = "onRequestEnd"
        /\ trace[Len(trace)].result.success = TRUE
        /\ trace[Len(trace)].result.rateLimited =
              (\E i \in 1..(Len(outcomes) - 1) : Is429(outcomes[i]))

\* the attempts of the request that obtained a response
Responded == {i \in DOMAIN outcomes : outcomes[i].type = "response"}

LastResponded == CHOOSE i \in Responded : \A j \in Responded : j <= i

\* C16 as stated: in the end result of a failed request, statusCode is the
\* last known HTTP status of the request, and 0 only if no attempt ever
\* obtained a response.  (Stated for requests whose attempts all failed
\* outright.)
C16_LastKnownStatus ==
    (ExhaustedDone /\ NoSuccessStatus) =>
        trace[Len(trace)].result.statusCode =
            IF Responded = {} THEN 0 ELSE outcomes[LastResponded].status

\* C16 (amended): in the end result of a request that fails after
\* exhausting its attempts, statusCode is the status carried by the failure
\* of the last attempt: the status of its non-2xx response, and 0 when that
\* failure carries none (transport error, timeout, unreadable or undecodable
\* 2xx body), whatever earlier attempts obtained.
C16_StatusOfLastFailure ==
    ExhaustedDone =>
        trace[Len(trace)].result.statusCode =
            IF LastOutcome.type = "response" /\ ~Is2xx(LastOutcome)
            THEN LastOutcome.status
            ELSE 0

C16_Witness ==
    /\ ExhaustedDone
    /\ MaxRetries = 1
    /\ Is5xx(outcomes[1])
    /\ IsTransport(outcomes[2])
    /\ trace[Len(trace)].result.statusCode = 0

\* the failure an attempt with outcome o leaves behind
ExpectedFailure(o) ==
    IF IsTransport(o)
    THEN [cls |-> "Error", name |-> o.name, message |-> o.message]
    ELSE IF Is2xx(o)
    THEN [cls |-> "Error",
          name |-> IF o.body.readable THEN "SyntaxError" ELSE "TypeError",
          message |-> FailureMessage(o)]
    ELSE [cls |-> "ZebraError", message |-> FailureMessage(o),
          statusCode |-> o.status, response |-> o,
          responseBody |-> ExpectedErrorBody(o.body)]

\* C17: when a request exhausts its attempts, the error it throws is the
\* failure observed on the last attempt, the one reported as error in the
\* end result; never a synthesized error, never an earlier failure.
C17_ThrowsLastFailure ==
    ExhaustedDone =>
        /\ outcome.kind = "throw"
        /\ outcome.error = trace[Len(trace)].result.error
        /\ outcome.error = ExpectedFailure(LastOutcome)
        /\ Len(outcomes) = MaxRetries + 1

C17_Witness ==
    /\ ExhaustedDone
    /\ MaxRetries = 2
    /\ Is429(outcomes[1])
    /\ IsTransport(outcomes[2])
    /\ Is5xx(outcomes[3])
    /\ outcome.kind = "throw"
    /\ outcome.error.statusCode = outcomes[3].status

\* C18 as stated: every failure a request throws is a ZebraError, also when
\* the last failure was a transport-level error or a timeout.  (Stated for
\* requests whose attempts all failed outright.)
C18_AlwaysTyped ==
    (pc = "done" /\ outcome.kind = "throw" /\ NoSuccessStatus) =>
        outcome.error.cls = "ZebraError"

\* C18 (amended): a failure a request throws is a ZebraError exactly when
\* the last attempt obtained a non-2xx response; when the last attempt
\* failed at transport level or by timeout (or a 2xx body could not be read
\* or decoded) the low-level Error itself is thrown, not a ZebraError.
C18_TypedIffResponse ==
    (pc = "done" /\ outcome.kind = "throw") =>
        /\ outcome.error.cls = "ZebraError" <=>
              (LastOutcome.type = "response" /\ ~Is2xx(LastOutcome))
        /\ IsTransport(LastOutcome) =>
              outcome.error = [cls |-> "Error", name |-> LastOutcome.name,
                               message |-> LastOutcome.message]
        /\ outcome.error.cls \in {"ZebraError", "Error"}

C18_Witness ==
    /\ pc = "done"
    /\ outcome.kind = "throw"
    /\ MaxRetries = 1
    /\ Is5xx(outcomes[1])
    /\ IsTransport(outcomes[2])
    /\ outcome.error.cls = "Error"
    /\ outcome.error.name = "TimeoutError"

\* C19: a 2xx status ends the attempt loop and the request: after it, no
\* further HTTP attempt is issued and no further onRetry or onRequestEnd
\* callback is invoked, whatever the body of the response is.
C19_SuccessTerminates ==
    \A i \in DOMAIN outcomes :
        Is2xx(outcomes[i]) =>
            /\ i = Len(outcomes)
            /\ httpAttempts = i
            /\ \A q \in DOMAIN trace :
                  q > FetchPos(i) + 1 =>
                      trace[q].ev \notin {"fetch", "onRetry", "onRequestEnd"}

\* C20: on a successful status the request returns null when the status is
\* 204 or the body is empty, and otherwise the JSON-decoded body.
C20_Payload ==
    \A i \in DOMAIN outcomes :
        LET o == outcomes[i]
        IN /\ (Is2xx(o) /\ (o.status = 204 \/ (o.body.readable /\ o.body.text = ""))) =>
                /\ i = Len(outcomes)
                /\ pc = "done"
                /\ outcome = [kind |-> "return", value |-> Null]
           /\ (Is2xx(o) /\ o.status # 204 /\ o.body.readable /\ o.body.text = JsonText) =>
                /\ i = Len(outcomes)
                /\ pc = "done"
                /\ outcome = [kind |-> "return", value |-> Obj([error |-> "Not Found"])]
           /\ (Is2xx(o) /\ o.status # 204 /\ o.body.readable /\ o.body.text = SuccessJsonText) =>
                /\ i = Len(outcomes)
                /\ pc = "done"
                /\ outcome = [kind |-> "return", value |-> Obj([success |-> TRUE])]

C20_Witness ==
    /\ pc = "done"
    /\ Len(outcomes) = 2
    /\ Is429(outcomes[1])
    /\ outcomes[2].status = 200
    /\ outcomes[2].body.text = SuccessJsonText
    /\ outcome = [kind |-> "return", value |-> Obj([success |-> TRUE])]

\* every transport call made so far has been answered and the answer handled
Handled == Len(outcomes) >= 1 /\ Len(outcomes) = httpAttempts

IsFailureResponse(o) == o.type = "response" /\ ~Is2xx(o)

\* C21: ZebraError.fromResponse round-trips the response body: a JSON-object
\* body yields a responseBody deep-equal to that object, a non-JSON text body
\* yields the exact text, an empty body yields an unset responseBody; in all
\* three cases statusCode is the response status.
C21_RoundTrip ==
    (Handled /\ IsFailureResponse(LastOutcome) /\ LastOutcome.body.readable) =>
        /\ lastError.cls = "ZebraError"
        /\ lastError.statusCode = LastOutcome.status
        /\ LastOutcome.body.text = JsonText =>
              lastError.responseBody = Obj([error |-> "Not Found"])
        /\ LastOutcome.body.text = SuccessJsonText =>
              lastError.responseBody = Obj([success |-> TRUE])
        /\ LastOutcome.body.text = PlainText =>
              lastError.responseBody = [t |-> "string", s |-> "Rate limited"]
        /\ LastOutcome.body.text = "" =>
              lastError.responseBody = Undefined
        /\ (pc = "done" /\ outcome.kind = "throw") => outcome.error = lastError

C21_Witness ==
    /\ Handled
    /\ Len(outcomes) = 3
    /\ outcomes[1].status = 500 /\ outcomes[1].body = [readable |-> TRUE, text |-> JsonText]
    /\ outcomes[2].status = 503 /\ outcomes[2].body = [readable |-> TRUE, text |-> ""]
    /\ outcomes[3].status = 404 /\ outcomes[3].body = [readable |-> TRUE, text |-> PlainText]
    /\ outcome.kind = "throw"
    /\ outcome.error.responseBody = Str(PlainText)

\* C22: ZebraError.fromResponse never throws: when reading the body fails or
\* the body does not parse, it still returns a ZebraError with the response
\* status, the body unset (read failure) or kept as raw text (parse failure),
\* so the attempt is classified by its status alone: a 429 is reported to
\* onRateLimitHit and retried, a status >= 500 is retried, any other status
\* is thrown at once.
C22_NeverThrows ==
    ( /\ Handled
      /\ IsFailureResponse(LastOutcome)
      /\ (~LastOutcome.body.readable \/ LastOutcome.body.text = PlainText) ) =>
        /\ lastError.cls = "ZebraError"
        /\ lastError.statusCode = LastOutcome.status
        /\ lastError.responseBody =
              IF LastOutcome.body.readable THEN Str(LastOutcome.body.text) ELSE Undefined
        /\ IsClientError(LastOutcome) =>
              /\ pc = "done"
              /\ outcome = [kind |-> "throw", error |-> lastError]
              /\ attempt = Len(outcomes) - 1
        /\ ~IsClientError(LastOutcome) =>
              /\ attempt = Len(outcomes)
              /\ pc \in {"loop", "sleep", "done"}
              /\ pc = "done" => (ExhaustedDone /\ Len(outcomes) = MaxRetries + 1)
              /\ Len(outcomes) <= MaxRetries => pc # "done"
        /\ Is429(LastOutcome) =>
              trace[FetchPos(Len(outcomes)) + 1].ev = "onRateLimitHit"

C22_Witness ==
    /\ pc = "done"
    /\ Len(outcomes) = 3
    /\ outcomes[1].status = 429 /\ ~outcomes[1].body.readable
    /\ outcomes[2].status = 500 /\ ~outcomes[2].body.readable
    /\ outcomes[3].status = 404 /\ ~outcomes[3].body.readable
    /\ outcome.kind = "throw"
    /\ outcome.error.cls = "ZebraError"
    /\ outcome.error.statusCode = 404
    /\ outcome.error.responseBody = Undefined

TelemetryCallbacks == {"onRequestStart", "onRetry", "onRateLimitHit", "onRequestEnd"}

\* C24: the operation descriptor is created once per request and every
\* telemetry callback of the request (start, retry, rate-limit, end) receives
\* it with the same method, endpoint, route, operationName and startTime;
\* a route template given to the call is the descriptor's route verbatim,
\* not the interpolated endpoint.
C24_SameDescriptor ==
    LET descriptor ==
            [method |-> IF call.options.method = "" THEN "GET" ELSE call.options.method,
             endpoint |-> call.endpoint,
             route |-> call.route,
             operationName |-> call.operationName,
             startTime |-> call.now]
    IN /\ pc # "idle" => context = descriptor
       /\ \A p \in DOMAIN trace :
            trace[p].ev \in TelemetryCallbacks =>
                /\ trace[p].context = descriptor
                /\ trace[p].context = trace[1].context
                /\ (call.route = Str("sensors/:id") /\ call.endpoint = "sensors/123") =>
                      trace[p].context.route = [t |-> "string", s |-> "sensors/:id"]

C24_Witness ==
    /\ pc = "done"
    /\ call.route = Str("sensors/:id")
    /\ call.endpoint = "sensors/123"
    /\ call.options.method = ""
    /\ call.now = 7
    /\ Count("onRetry") = 2
    /\ Count("onRateLimitHit") >= 1
    /\ trace[Len(trace)].ev = "onRequestEnd"
    /\ trace[Len(trace)].context.route = Str("sensors/:id")
    /\ trace[Len(trace)].context.method = "GET"
    /\ trace[Len(trace)].context.startTime = 7

\* The frame of an invocation that runs alone.  AloneAnswered: the transport
\* answers o to a frame that awaits it.  AloneLoop: from the loop head to
\* the next await of the transport, or to the end, through the answers.
AloneAnswered(f, o) ==
    IF o.type = "rejected"
    THEN [f EXCEPT !.outcomes = Append(@, o),
                   !.bodyReads = Append(@, <<>>),
                   !.lastError = PlainError(o.name, o.message),
                   !.attempt = @ + 1,
                   !.pc = "loop"]
    ELSE IF ResponseOk(o)
    THEN LET ended == [f EXCEPT !.outcomes = Append(@, o),
                                !.bodyReads = Append(@, PayloadReads(o)),
                                !.trace = Append(@, EndEvent(f.context,
                                                    SuccessResult(o, f.attempt)))]
             read == ReadPayload(o)
         IN IF read.kind = "return"
            THEN [ended EXCEPT !.pc = "done",
                               !.outcome = [kind |-> "return", value |-> read.value]]
            ELSE [ended EXCEPT !.lastError = read.error,
                               !.attempt = @ + 1,
                               !.pc = "loop"]
    ELSE LET error == ErrorOfResponse(o)
             told == [f EXCEPT !.outcomes = Append(@, o),
                               !.bodyReads = Append(@, FailureReads(o)),
                               !.trace = IF IsRateLimitStatus(o.status)
                                         THEN Append(@, RateLimitEvent(f.context,
                                                                       RetryAfterOf(o)))
                                         ELSE @,
                               !.lastError = error]
         IN IF IsTerminalStatus(o.status)
            THEN [told EXCEPT !.pc = "done",
                              !.outcome = [kind |-> "throw", error |-> error]]
            ELSE [told EXCEPT !.attempt = @ + 1, !.pc = "loop"]

RECURSIVE AloneLoop(_, _, _)
AloneLoop(f, cfg, answers) ==
    IF ~LoopCondition(f.attempt, cfg)
    THEN [f EXCEPT !.pc = "done",
                   !.trace = Append(@, EndEvent(f.context,
                                                FailureResult(f.lastError, f.attempt))),
                   !.outcome = [kind |-> "throw", error |-> f.lastError]]
    ELSE LET announced == IF IsRetry(f.attempt)
                          THEN OnRetry(f.trace, f.context, f.attempt, f.lastError, cfg)
                          ELSE f.trace
             called == [f EXCEPT !.pc = "fetch",
                                 !.trace = Append(announced,
                                                  FetchEvent(f.context, cfg, f.attempt,
                                                             f.call.options)),
                                 !.httpAttempts = @ + 1]
         IN IF answers = <<>> THEN called
            ELSE LET g == AloneAnswered(called, Head(answers))
                 IN IF g.pc = "done" THEN g ELSE AloneLoop(g, cfg, Tail(answers))

Alone(cfg, c, answers) ==
    LET ctx == RequestContext(MethodOf(c.options), c.endpoint, c.route,
                              c.operationName, c.now)
    IN AloneLoop([IdleFrame(c) EXCEPT !.pc = "loop", !.context = ctx,
                                      !.trace = <<StartEvent(ctx)>>],
                 cfg, answers)

\* at an await of the transport and at its end, an invocation is where it
\* would be had it run alone with the same answers: same number of HTTP
\* attempts, same callbacks in the same order with the same retryCount, same
\* outcome
RanAlone(f) ==
    f.pc \in {"fetch", "done"} => f = Alone(config, f.call, f.outcomes)

\* C25: invocations running concurrently on one client do not interfere:
\* under every interleaving of their attempts and backoff waits, each one's
\* number of HTTP attempts, sequence of telemetry callbacks, retryCount and
\* outcome are those of the same invocation running alone with the same
\* responses, and no step modifies the resolved configuration.
C25_NoInterference ==
    /\ [](RanAlone(Frame) /\ RanAlone(suspended))
    /\ [][config' = config]_vars

C25_Witness ==
    /\ pc = "done"
    /\ suspended.pc = "done"
    /\ call = RouteCall
    /\ suspended.call = OtherCall
    /\ Len(outcomes) = 2
    /\ Is429(outcomes[1])
    /\ IsTransport(outcomes[2])
    /\ outcome.kind = "throw"
    /\ Len(suspended.outcomes) = 2
    /\ Is5xx(suspended.outcomes[1])
    /\ Is2xx(suspended.outcomes[2])
    /\ suspended.outcome.kind = "return"
    /\ suspended.trace[Len(suspended.trace)].result.retryCount = 1

\* two calls with identical inputs (the clock may have moved on)
SameInputs(c, d) ==
    /\ c.operationName = d.operationName
    /\ c.endpoint = d.endpoint
    /\ c.options = d.options
    /\ c.route = d.route

\* the telemetry callbacks an invocation made, in order
Callbacks(f) == SelectSeq(f.trace, LAMBDA e : e.ev \in TelemetryCallbacks)

\* an invocation that got r at once: one attempt, one start and one end of
\* its own, retryCount 0, nothing left in its attempt counter or last error
CleanSuccess(f, r) ==
    /\ f.httpAttempts = 1
    /\ f.outcomes = <<r>>
    /\ f.outcome = [kind |-> "return", value |-> ExpectedPayload(r)]
    /\ Len(Callbacks(f)) = 2
    /\ Callbacks(f)[1].ev = "onRequestStart"
    /\ Callbacks(f)[2].ev = "onRequestEnd"
    /\ Callbacks(f)[1].context = Callbacks(f)[2].context
    /\ Callbacks(f)[1].context.startTime = f.call.now
    /\ Callbacks(f)[2].result.success = TRUE
    /\ Callbacks(f)[2].result.statusCode = r.status
    /\ Callbacks(f)[2].result.retryCount = 0
    /\ Callbacks(f)[2].result.rateLimited = FALSE
    /\ f.attempt = 0
    /\ f.lastError = NoError

\* C26: request invoked twice in sequence with identical inputs, against a
\* transport that always returns the same 200 response, yields two
\* structurally identical payloads and two independent start/end pairs,
\* each end result reporting retryCount 0; nothing of the first call
\* (attempt counter, last error, rate-limit flag) carries over to the second.
\* (Stated for a 200 response whose body decodes.)
C26_Idempotent ==
    \A r \in BackoffOutcomes :
        ( /\ Is2xx(r)
          /\ ExpectedPayload(r) # Undefined
          /\ pc = "done"
          /\ suspended.pc = "done"
          /\ SameInputs(call, suspended.call)
          /\ \A i \in DOMAIN outcomes : outcomes[i] = r
          /\ \A i \in DOMAIN suspended.outcomes : suspended.outcomes[i] = r )
        => /\ CleanSuccess(Frame, r)
           /\ CleanSuccess(suspended, r)
           /\ outcome = suspended.outcome

C26_Witness ==
    /\ pc = "done"
    /\ suspended.pc = "done"
    /\ suspended.call = RouteCall
    /\ call = RepeatedCall
    /\ outcomes = suspended.outcomes
    /\ Len(outcomes) = 1
    /\ outcomes[1].status = 200
    /\ outcome = [kind |-> "return", value |-> Obj([success |-> TRUE])]
    /\ suspended.outcome = outcome
    /\ trace[Len(trace)].context.startTime = 7
    /\ suspended.trace[Len(suspended.trace)].context.startTime = 0

IsTimeout(o) == o.type = "rejected" /\ o.name = "TimeoutError"

\* C27: the timeout is scoped per attempt: each HTTP attempt is issued with
\* a timeout signal of timeoutMs made for that attempt, a timeout aborts
\* only the attempt in flight, and the request goes on with the next retry
\* while attempts remain; it is not cancelled as a whole.
C27_TimeoutPerAttempt ==
    /\ \A k \in 1..httpAttempts :
          trace[FetchPos(k)].signal = [timeoutMs |-> config.timeoutMs, madeFor |-> k - 1]
    /\ \A i \in DOMAIN outcomes :
          IsTimeout(outcomes[i]) =>
              /\ attempt >= i
              /\ i <= MaxRetries =>
                    /\ Len(outcomes) = i =>
                          (pc \in {"loop", "sleep", "fetch"} /\ outcome.kind = "pending")
                    /\ pc = "done" => (Len(outcomes) > i /\ httpAttempts > i)
              /\ (i = MaxRetries + 1 /\ pc = "done") =>
                    /\ ExhaustedDone
                    /\ outcome.kind = "throw"
                    /\ outcome.error.name = "TimeoutError"

C27_Witness ==
    /\ pc = "done"
    /\ MaxRetries = 2
    /\ Len(outcomes) = 3
    /\ IsTimeout(outcomes[1])
    /\ IsTimeout(outcomes[2])
    /\ outcomes[3].status = 200
    /\ outcome.kind = "return"
    /\ trace[FetchPos(3)].signal.madeFor = 2

\* C28: every invocation of request with a finite maxRetries eventually
\* finishes, provided each HTTP attempt eventually responds, fails or times
\* out and each backoff wait eventually elapses; it finishes by returning a
\* payload or by throwing, and an invocation whose last attempt failed
\* throws that failure.
C28_Terminates ==
    /\ (pc # "idle") ~> (pc = "done")
    /\ [](pc = "done" =>
            /\ outcome.kind \in {"return", "throw"}
            /\ outcome.kind = "throw" => outcome.error.cls \in {"ZebraError", "Error"}
            /\ (IsFailureResponse(LastOutcome) \/ IsTransport(LastOutcome)) =>
                  outcome = [kind |-> "throw", error |-> ExpectedFailure(LastOutcome)])
    /\ [](pc # "done" => outcome.kind = "pending")

C28_Witness ==
    /\ pc = "done"
    /\ MaxRetries = 2
    /\ httpAttempts = 3
    /\ IsTimeout(outcomes[1])
    /\ Is429(outcomes[2])
    /\ IsTimeout(outcomes[3])
    /\ outcome.kind = "throw"
    /\ outcome.error.name = "TimeoutError"

\* C29: the retry-after hint passed to onRateLimitHit is the numeric value of
\* the response's retry-after header, and it is 0 when the header is absent
\* or cannot be parsed as a number.
C29_RetryAfterHint ==
    \A k \in DOMAIN outcomes :
        Is429(outcomes[k]) =>
            LET hint == trace[FetchPos(k) + 1]
            IN /\ hint.ev = "onRateLimitHit"
               /\ ~hint.retryAfter.isNaN
               /\ outcomes[k].retryAfter = "60" => hint.retryAfter.n = 60
               /\ outcomes[k].retryAfter \in {"", "soon"} => hint.retryAfter.n = 0

\* the list of sensors in a payload, <<>> when there is none
ReturnedList(payload) ==
    IF "sensors" \in DOMAIN payload.o /\ payload.o.sensors # Null
    THEN payload.o.sensors.a
    ELSE <<>>

ApiKeys == {TestApiKey, "other-key"}
CallerHeaders ==
    { NoHeaders,
      "X-Trace" :> "abc",
      "Content-Type" :> "text/plain",
      ("apikey" :> "caller-key") @@ ("Accept" :> "application/json") }
RequestBodies == {Undefined, Str("{\"serial_number\":\"SN12345\"}")}

HeaderCalls ==
    { CallWith("test", "sensors/123", m, Str("sensors/:id"), 0, h, b) :
        m \in Methods, h \in CallerHeaders, b \in RequestBodies }

InitHeaders ==
    /\ \E k \in ApiKeys, b \in BaseUrls : config = KeyedConfig(MaxRetriesBound, k, b)
    /\ pc = "idle"
    /\ context = NoContext
    /\ attempt = 0
    /\ lastError = NoError
    /\ httpAttempts = 0
    /\ trace = <<>>
    /\ outcomes = <<>>
    /\ outcome = [kind |-> "pending"]
    /\ bodyReads = <<>>
    /\ call \in HeaderCalls
    /\ suspended = IdleFrame(RouteCall)
    /\ statusCall = NoStatusCall
    /\ resourceCall = NoResourceCall
    /\ mock = NewMock
    /\ provider = NoopProvider

SpecHeaders == InitHeaders /\ [][NextBackoff]_vars

\* the URL the request is expected at: the base URL, a slash unless it ends
\* with one, and the endpoint
ExpectedUrl ==
    IF config.baseUrl = "https://api.example.com/"
    THEN "https://api.example.com/" \o call.endpoint
    ELSE config.baseUrl \o "/" \o call.endpoint

ErrorBodies ==
    Bodies \cup { [readable |-> TRUE, text |-> ArrayJsonText],
                  [readable |-> TRUE, text |-> NumberJsonText],
                  [readable |-> TRUE, text |-> NullJsonText] }

BodyResponses ==
    { [type |-> "response", status |-> s, body |-> b, retryAfter |-> ""] :
        s \in {404, 429, 500}, b \in ErrorBodies }

\* the transport answers with a non-2xx status and any of these bodies
FetchResolvesBody == \E response \in BodyResponses : FailureResponse(response)

NextBodies ==
    \/ Request
    \/ FirstAttempt
    \/ RetryBackoff
    \/ Wake
    \/ FetchResolvesBody
    \/ Exhausted

SpecBodies == Init /\ [][NextBodies]_vars

\* C32: the responseBody of every ZebraError built by ZebraError.fromResponse
\* is a decoded JSON object (keyed mapping), a raw text string, or unset, for
\* every response body: empty, JSON object, JSON array, JSON scalar or null,
\* text that is not JSON, unreadable.
C32_BodyKinds ==
    /\ lastError.cls = "ZebraError" =>
          lastError.responseBody.t \in {"object", "string", "undefined"}
    /\ (outcome.kind = "throw" /\ outcome.error.cls = "ZebraError") =>
          outcome.error.responseBody.t \in {"object", "string", "undefined"}

\* the route template of each resource operation
RouteTemplate(op) ==
    CASE op = "sensors.getStatus" -> "devices/environmental-sensors"
      [] op = "sensors.list" -> "environmental/sensors"
      [] op = "sensors.register" -> "devices/sensor-enrollments"
      [] op = "sensors.unregister" -> "devices/sensor-enrollments/:serialNumber"
      [] op = "sensors.listEnrolled" -> "devices/environmental-sensors"
      [] op = "sensors.triggerRead" -> "devices/environmental-sensors/:sensorId/readings"
      [] op = "readings.getLog" -> "data/environmental/tasks/:taskId/log"
      [] op = "alarms.list" -> "environmental/tasks/:taskId/alarms"
      [] op = "tasks.create" -> "environmental/tasks"
      [] op = "tasks.get" -> "environmental/tasks/:taskId"
      [] op = "tasks.list" -> "environmental/tasks"
      [] op = "tasks.stop" -> "environmental/tasks/:taskId/stop"
      [] op = "tasks.delete" -> "environmental/tasks/:taskId"
      [] op = "tasks.assignSensors" -> "environmental/tasks/:taskId/sensors"
      [] op = "webhooks.register" -> "subscription"
      [] op = "webhooks.list" -> "subscription"
      [] op = "webhooks.stop" -> "subscription/:id/stop"
      [] op = "webhooks.start" -> "subscription/:id/start"
      [] op = "webhooks.delete" -> "subscription/:id"
      [] op = "auth.createZSFinderToken" -> "devices/credentials/token"

\* C33: every resource-module operation invokes ZebraClient.request exactly
\* once per call, with its fixed operation name and route template, and does
\* no retry or error classification of its own: what the pipeline throws
\* reaches the caller unchanged.
C33_OneRequestPerOperation ==
    /\ resourceCall.pc # "idle" =>
          /\ Len(resourceCall.requests) = 1
          /\ resourceCall.requests[1].operationName = resourceCall.op
          /\ resourceCall.requests[1].route = Str(RouteTemplate(resourceCall.op))
    /\ (resourceCall.pc = "done" /\ resourceCall.response.kind = "throw") =>
          resourceCall.outcome = resourceCall.response
    /\ resourceCall.pc = "done" => resourceCall.response.kind # "pending"

\* the last record of the log
LastCall == mock.calls[Len(mock.calls)]

\* C34: MockZebraClient keeps an append-only call log: every invocation of a
\* mock method appends exactly one record with its method name and arguments
\* at the end of the log before it returns or throws, the records already
\* there are neither modified nor reordered, and the log shrinks only through
\* clearCalls, which empties it.
C34_AppendOnlyLog ==
    [][ /\ mock'.invocations = mock.invocations + 1 =>
              /\ Len(mock'.calls) = Len(mock.calls) + 1
              /\ SubSeq(mock'.calls, 1, Len(mock.calls)) = mock.calls
              /\ mock'.calls[Len(mock'.calls)].method = mock'.returned.method
              /\ mock'.calls[Len(mock'.calls)].args = mock'.returned.args
              /\ mock'.returned.kind \in {"return", "throw"}
        /\ mock'.invocations = mock.invocations =>
              \/ mock'.calls = mock.calls
              \/ mock'.calls = <<>>
      ]_vars

\* two calls were logged in the order they were made, the first one answered
\* with an error, and a later clearCalls emptied the log
C34_Witness ==
    /\ mock.invocations = 2
    /\ Len(mock.calls) = 2
    /\ mock.calls[1].method = "sensors.list"
    /\ mock.calls[1].error = PlainError("Error", "Mock failure")
    /\ mock.calls[2].method = "alarms.list"
    /\ mock.calls[2].args = <<Obj([taskId |-> "T1"])>>
    /\ mock.returned.method = "alarms.list"

\* C35: for every MockZebraClient method: a canned Error is thrown as it is
\* and recorded as error, with result unset; a canned value is returned and
\* recorded as result, with error unset; with no canned response the call
\* throws 'No mock response configured for <method>' and is still recorded,
\* with neither result nor error.
C35_CannedResponse ==
    /\ [](mock.invocations > 0 /\ mock.calls # <<>> =>
            LET canned == mock.returned.canned
            IN /\ LastCall.method = mock.returned.method
               /\ InstanceOfError(canned) =>
                     /\ mock.returned.kind = "throw"
                     /\ mock.returned.error = canned
                     /\ LastCall.error = canned
                     /\ LastCall.result = Undefined
               /\ (~InstanceOfError(canned) /\ canned # Undefined) =>
                     /\ mock.returned.kind = "return"
                     /\ mock.returned.value = canned
                     /\ LastCall.result = canned
                     /\ LastCall.error = Undefined
               /\ canned = Undefined =>
                     /\ mock.returned.kind = "throw"
                     /\ mock.returned.error.cls = "Error"
                     /\ mock.returned.error.message =
                           "No mock response configured for " \o mock.returned.method
                     /\ LastCall.result = Undefined
                     /\ LastCall.error = Undefined)
    /\ [][ mock'.invocations = mock.invocations + 1 =>
              /\ mock'.calls # <<>>
              /\ mock'.returned.canned = mock.mockResponses[mock'.returned.method]
         ]_vars

\* getStatus was called with nothing configured: it threw and was recorded
\* without result and without error, after a call that returned its value
C35_Witness ==
    /\ Len(mock.calls) = 2
    /\ mock.calls[1].method = "sensors.list"
    /\ mock.calls[1].result = CannedValue("sensors.list")
    /\ mock.calls[1].error = Undefined
    /\ mock.calls[2].method = "sensors.getStatus"
    /\ mock.calls[2].result = Undefined
    /\ mock.calls[2].error = Undefined
    /\ mock.returned.kind = "throw"
    /\ mock.returned.error.message =
          "No mock response configured for sensors.getStatus"

\* C36: the end result agrees with the outcome of the request: request
\* returns a payload if and only if the result passed to onRequestEnd has
\* success = true, and throws if and only if that result has success = false,
\* for every status and body, a 2xx with a body that is not valid JSON
\* included.
C36_ResultAgreesWithOutcome ==
    pc = "done" =>
        /\ Count("onRequestEnd") >= 1
        /\ \A i \in 1..Len(trace) :
              trace[i].ev = "onRequestEnd" =>
                 /\ trace[i].result.success = TRUE <=> outcome.kind = "return"
                 /\ trace[i].result.success = FALSE <=> outcome.kind = "throw"

\* C37: the telemetry provider cannot influence the traffic: for the same
\* inputs and the same sequence of transport outcomes a run with a provider
\* whose callbacks throw issues as many HTTP attempts as the run with a
\* provider whose callbacks return; what onRequestEnd or onRateLimitHit
\* throws never has the request sent again.
C37_ProviderCannotInfluence ==
    pc \in {"fetch", "done"} =>
        httpAttempts = Alone(config, call, outcomes).httpAttempts

\* C38: with OTelTelemetryProvider as the provider, every span started in
\* onRequestStart is ended exactly once and removed from the map of spans in
\* progress: once the request has finished (returned, thrown a terminal 4xx
\* failure, or exhausted its retries) the provider holds no span in progress
\* for it.
C38_SpansEnded ==
    /\ \A i \in DOMAIN provider.started : provider.started[i].ended <= 1
    /\ pc = "done" =>
          /\ Len(provider.started) = 1
          /\ provider.started[1].ended = 1
          /\ provider.spans = {}

\* the spans the provider started for the request of frame f
SpansOf(f) ==
    { i \in DOMAIN provider.started : provider.started[i].url = f.context.endpoint }

\* the span events the retry and rate-limit callbacks of a history amount to
SpanEvents(tr) ==
    LET told == SelectSeq(tr, LAMBDA e : e.ev \in {"onRetry", "onRateLimitHit"})
    IN [ i \in 1..Len(told) |->
            IF told[i].ev = "onRetry"
            THEN [name |-> "retry", attempt |-> told[i].attempt,
                  reason |-> told[i].reason]
            ELSE [name |-> "rate_limit_hit", retry_after |-> told[i].retryAfter] ]

\* the results a history reported through onRequestEnd
EndResults(tr) ==
    LET told == SelectSeq(tr, LAMBDA e : e.ev = "onRequestEnd")
    IN [ i \in 1..Len(told) |-> told[i].result ]

\* every 2xx answer frame f received had a body that could be decoded
DecodedWhenOk(f) ==
    \A k \in DOMAIN f.outcomes :
        Is2xx(f.outcomes[k]) => ReadPayload(f.outcomes[k]).kind = "return"

\* the request of frame f has one span, which carries its events and its
\* status and was ended by its onRequestEnd alone
OwnSpan(f) ==
    (f.pc # "idle" /\ DecodedWhenOk(f)) =>
        /\ Cardinality(SpansOf(f)) = 1
        /\ LET span == provider.started[CHOOSE i \in SpansOf(f) : TRUE]
               results == EndResults(f.trace)
           IN /\ span.events = SpanEvents(f.trace)
              /\ span.ended = (IF results = <<>> THEN 0 ELSE 1)
              /\ results # <<>> =>
                    /\ span.status = (IF results[1].success THEN "OK" ELSE "ERROR")
                    /\ span.statusCode = results[1].statusCode

\* C39: when several requests are in flight at once through one
\* OTelTelemetryProvider, each request has its own span: its retry and
\* rate-limit events and its final status are recorded on the span its own
\* onRequestStart started, and its onRequestEnd ends that span and no other,
\* also when two requests have the same operation name and start timestamp.
\* (Stated for requests whose 2xx answers could be decoded, so that a
\* violation does not rest on the retry of a 2xx.)
C39_OwnSpan ==
    /\ OwnSpan(Frame)
    /\ OwnSpan(suspended)

====
